---- MODULE Spec2Model ----
(***************************************************************************)
(* A model of the next-intl AST analyzer of i18n-ally                      *)
(* (src/analyzers/ast-analyzer.ts): the constant folder foldConstant, the  *)
(* namespace resolver resolveNamespaceFromCall and the two traversals      *)
(* analyzeUseTranslations and analyzeTranslationUsages.                    *)
(*                                                                         *)
(* A source file is a parsed and scope-analysed syntax tree: its scopes    *)
(* (a parent relation), its variable declarators, parameters and import    *)
(* specifiers (the bindings its scopes hold) and its call expressions in   *)
(* traversal order.  Expression nodes are records that carry Babel's       *)
(* `type` tag and the fields the analyzer reads.                           *)
(***************************************************************************)
EXTENDS Integers, Sequences, FiniteSets, TLC

VARIABLES
  code,                 \* the parsed source file under analysis
  varNamespaceMap,      \* the fallback map handed to analyzeTranslationUsages
  importer,             \* the import resolver (or none)
  filePath,             \* the path handed to analyzeUseTranslations (or none)
  declIdx,              \* declarators analyzeUseTranslations has visited
  callIdx,              \* call expressions analyzeTranslationUsages has visited
  translationsAnalysis, \* results of analyzeUseTranslations
  analyzedKeys,         \* results of analyzeTranslationUsages
  folded,               \* the calls of foldConstant made on their own
  entry,                \* the framework method that runs the analyzers (or none)
  pc,                   \* the method's position
  analysisIdx,          \* bindings the method's loop has taken into its maps
  dynamicVars,          \* getScopeRange's map of dynamic bindings
  returned              \* what the method returned

frameworkVars == <<entry, pc, analysisIdx, dynamicVars, returned>>

vars == <<code, varNamespaceMap, importer, filePath, declIdx, callIdx,
          translationsAnalysis, analyzedKeys, folded, frameworkVars>>

(***************************************************************************)
(* Syntax nodes                                                            *)
(***************************************************************************)
Null == [type |-> "null"]

Str(v) == [type |-> "StringLiteral", value |-> v]

Num(v) == [type |-> "NumericLiteral", value |-> v]

Id(n) == [type |-> "Identifier", name |-> n]

\* quasis holds the cooked text of each quasi; Len(quasis) = Len(expressions) + 1
Tpl(quasis, expressions) ==
  [type |-> "TemplateLiteral", quasis |-> quasis, expressions |-> expressions]

Bin(operator, left, right) ==
  [type |-> "BinaryExpression", operator |-> operator, left |-> left, right |-> right]

Arr(elements) == [type |-> "ArrayExpression", elements |-> elements]

Prop(key, value) == [type |-> "ObjectProperty", key |-> key, value |-> value]

Spread(argument) == [type |-> "SpreadElement", argument |-> argument]

Obj(properties) == [type |-> "ObjectExpression", properties |-> properties]

TSAs(expression) == [type |-> "TSAsExpression", expression |-> expression]

TSTypeAssertion(expression) == [type |-> "TSTypeAssertion", expression |-> expression]

TSNonNull(expression) == [type |-> "TSNonNullExpression", expression |-> expression]

TSSatisfies(expression) == [type |-> "TSSatisfiesExpression", expression |-> expression]

Call(callee, arguments) ==
  [type |-> "CallExpression", callee |-> callee, arguments |-> arguments]

Await(argument) == [type |-> "AwaitExpression", argument |-> argument]

Member(object, property) ==
  [type |-> "MemberExpression", object |-> object, property |-> property]

\* a function expression in argument position; its body's calls are listed in
\* the file's calls with the scope the function opens
Arrow == [type |-> "ArrowFunctionExpression"]

(***************************************************************************)
(* Values                                                                  *)
(***************************************************************************)
\* ResolvedValue.value: string | string[] | Record<string, string>[] | null
NullV == [t |-> "null"]

StrV(s) == [t |-> "string", s |-> s]

StrArrV(items) == [t |-> "string[]", items |-> items]

ObjArrV(items) == [t |-> "object[]", items |-> items]

Dynamic == [value |-> NullV, isDynamic |-> TRUE]

Resolved(v) == [value |-> v, isDynamic |-> FALSE]

\* !res.isDynamic && typeof res.value === 'string'
IsString(res) == ~res.isDynamic /\ res.value.t = "string"

\* Array.prototype.join('')
RECURSIVE Join(_)
Join(parts) == IF parts = <<>> THEN "" ELSE Head(parts) \o Join(Tail(parts))

(***************************************************************************)
(* Scopes and bindings                                                     *)
(***************************************************************************)
\* the scope { getBinding: () => null } handed to the fold of an imported initializer
DummyScope == 0

NoBinding == [kind |-> "none"]

\* the bindings one scope holds itself: its variable declarators, the
\* parameters of the function that opens it and (program scope) its imports
OwnBindings(scope, name) ==
  LET ds == {i \in 1..Len(code.declarators) :
               /\ code.declarators[i].scope = scope
               /\ code.declarators[i].id.type = "Identifier"
               /\ code.declarators[i].id.name = name}
      ps == {i \in 1..Len(code.params) :
               code.params[i].scope = scope /\ code.params[i].name = name}
      ms == {i \in 1..Len(code.imports) :
               scope = 1 /\ code.imports[i].local = name}
  IN  IF ds # {}
        THEN LET d == code.declarators[CHOOSE i \in ds : \A j \in ds : i <= j]
             IN  {[kind |-> d.kind, isVariableDeclarator |-> TRUE, init |-> d.init,
                   scope |-> d.scope]}
      ELSE IF ps # {}
        THEN LET p == code.params[CHOOSE i \in ps : TRUE]
             IN  {[kind |-> "param", isVariableDeclarator |-> FALSE,
                   fnParent |-> p.fnParent, scope |-> p.scope]}
      ELSE IF ms # {}
        THEN LET m == code.imports[CHOOSE i \in ms : TRUE]
             IN  {[kind |-> "module", isVariableDeclarator |-> FALSE,
                   specifier |-> m.specifier, imported |-> m.imported,
                   local |-> m.local, source |-> m.source, scope |-> 1]}
      ELSE {}

\* a flat lookup: the binding of the first scope of the file that holds one
getBinding_Flat(scope, name) ==
  IF scope = DummyScope \/ \A sc \in 1..Len(code.parent) : OwnBindings(sc, name) = {}
    THEN NoBinding
    ELSE CHOOSE b \in OwnBindings(
                        CHOOSE sc \in 1..Len(code.parent) :
                          /\ OwnBindings(sc, name) # {}
                          /\ \A s2 \in 1..Len(code.parent) :
                               OwnBindings(s2, name) # {} => sc <= s2,
                        name) : TRUE

\* scope.getBinding(name): the binding of the innermost enclosing scope that
\* holds one
RECURSIVE getBinding(_, _)
getBinding(scope, name) ==
  IF scope = DummyScope THEN NoBinding
  ELSE IF OwnBindings(scope, name) # {}
    THEN CHOOSE b \in OwnBindings(scope, name) : TRUE
  ELSE getBinding(code.parent[scope], name)

(***************************************************************************)
(* Import resolver and imported modules                                    *)
(***************************************************************************)
\* an importer's answer: undefined, or a module's text.  A text either fails
\* to parse or parses to its top-level statements.
Undefined == [kind |-> "undefined"]

Text(parses, body) == [kind |-> "text", parses |-> parses, body |-> body]

NoImporter == [present |-> FALSE, files |-> {}]

\* importer(source)
CallImporter(imp, source) ==
  IF \E f \in imp.files : f.path = source
    THEN (CHOOSE f \in imp.files : f.path = source).text
    ELSE Undefined

\* parseCode: the syntax tree, or null when the parser throws
parseCode(text) == IF text.parses THEN [type |-> "File", body |-> text.body] ELSE Null

ExportConst(name, init) ==
  [type |-> "ExportNamedDeclaration",
   declaration |-> [type |-> "VariableDeclaration",
                    declarations |-> <<[id |-> Id(name), init |-> init]>>]]

\* const name = init; export { name }
ImportStatement(local, source) ==
  [type |-> "ImportDeclaration", local |-> local, source |-> source]

ExportList(name) == [type |-> "ExportNamedDeclaration", declaration |-> Null]

PlainConst(name, init) ==
  [type |-> "VariableDeclaration", declarations |-> <<[id |-> Id(name), init |-> init]>>]

\* the ExportNamedDeclaration visitor over the imported file: the
\* initializers of the exported declarators named importedName, in order
RECURSIVE MatchingExports(_, _)
MatchingExports(body, importedName) ==
  IF body = <<>> THEN <<>>
  ELSE LET st == Head(body)
           found ==
             IF st.type = "ExportNamedDeclaration"
                  /\ st.declaration.type = "VariableDeclaration"
               THEN SelectSeq(st.declaration.declarations,
                              LAMBDA decl : /\ decl.id.type = "Identifier"
                                            /\ decl.id.name = importedName)
               ELSE <<>>
       IN  [i \in 1..Len(found) |-> found[i].init]
             \o MatchingExports(Tail(body), importedName)

\* the name the importing file gives the binding
ImportedName_Local(binding) == binding.local

\* binding.path.node.imported.name: the name the exporting module gives it
ImportedName(binding) == binding.imported

(***************************************************************************)
(* foldConstant                                                            *)
(***************************************************************************)
RecursionLimit == 5

\* the unwrap condition without the satisfies wrapper
IsTSWrapper_NoSatisfies(node) ==
  node.type \in {"TSAsExpression", "TSTypeAssertion", "TSNonNullExpression"}

IsTSWrapper(node) ==
  node.type \in {"TSAsExpression", "TSTypeAssertion", "TSNonNullExpression",
                 "TSSatisfiesExpression"}

\* the while loop that unwraps TS expressions around the node
RECURSIVE UnwrapTS(_)
UnwrapTS(node) == IF IsTSWrapper(node) THEN UnwrapTS(node.expression) ELSE node

\* the while loop that unwraps a declarator's initializer
RECURSIVE UnwrapInit(_)
UnwrapInit(valueNode) ==
  IF valueNode.type \in {"TSAsExpression", "TSTypeAssertion", "TSNonNullExpression"}
    THEN UnwrapInit(valueNode.expression)
    ELSE valueNode

\* a guard that lets one level more through
DepthExceeded_OffByOne(depth) == depth > RecursionLimit + 1

\* if (depth > 5) return dynamic
DepthExceeded(depth) == depth > RecursionLimit

\* obj[key] = value
SetProp(obj, key, value) == {e \in obj : e.k # key} \cup {[k |-> key, v |-> value]}

\* the loop over an object element's properties, from property i on;
\* valRes[j] is the fold of property j's value
RECURSIVE foldProperties(_, _, _, _)
foldProperties(properties, i, obj, valRes) ==
  IF i > Len(properties) THEN obj
  ELSE LET prop == properties[i]
       IN  IF prop.type = "ObjectProperty" /\ prop.key.type = "Identifier"
                /\ IsString(valRes[i])
             THEN foldProperties(properties, i + 1,
                                 SetProp(obj, prop.key.name, valRes[i].value.s), valRes)
             ELSE foldProperties(properties, i + 1, obj, valRes)

\* the loop over an array's elements, from element i on, with its three
\* locals; res[j] is the fold of element j and valRes[j] the folds of the
\* property values of element j
RECURSIVE foldElements(_, _, _, _, _, _, _)
foldElements(elements, i, type, stringElements, objectElements, res, valRes) ==
  IF i > Len(elements)
    THEN [type |-> type, stringElements |-> stringElements,
          objectElements |-> objectElements]
  ELSE IF elements[i] = Null
    THEN foldElements(elements, i + 1, type, stringElements, objectElements, res, valRes)
  ELSE IF IsString(res[i])
    THEN IF type \in {"unknown", "string"}
           THEN foldElements(elements, i + 1, "string",
                             Append(stringElements, res[i].value.s), objectElements,
                             res, valRes)
           ELSE [type |-> "mixed", stringElements |-> stringElements,
                 objectElements |-> objectElements]
  \* the "single object" branch is dead: foldConstant never returns a value
  \* that is a non-array object
  ELSE IF elements[i].type = "ObjectExpression"
    THEN IF type \in {"unknown", "object"}
           THEN foldElements(elements, i + 1, "object", stringElements,
                             Append(objectElements,
                                    foldProperties(elements[i].properties, 1, {},
                                                   valRes[i])),
                             res, valRes)
           ELSE [type |-> "mixed", stringElements |-> stringElements,
                 objectElements |-> objectElements]
  ELSE [type |-> "mixed", stringElements |-> stringElements,
        objectElements |-> objectElements]

\* the array branch's result taken from whatever the loop has collected
ArrayResult_Partial(r) ==
  IF r.stringElements # <<>> THEN Resolved(StrArrV(r.stringElements))
  ELSE IF r.objectElements # <<>> THEN Resolved(ObjArrV(r.objectElements))
  ELSE Dynamic

\* the result of the array branch from the loop's locals
ArrayResult(r) ==
  IF r.type = "string" THEN Resolved(StrArrV(r.stringElements))
  ELSE IF r.type = "object" THEN Resolved(ObjArrV(r.objectElements))
  ELSE Dynamic

\* the loop over a template literal's quasis, from quasi i on; valRes[j] is
\* the fold of substitution j; the result is the loop's two locals
RECURSIVE foldQuasis(_, _, _, _)
foldQuasis(node, i, resolvedParts, valRes) ==
  IF i > Len(node.quasis) THEN [isDynamic |-> FALSE, resolvedParts |-> resolvedParts]
  ELSE IF i <= Len(node.expressions)
    THEN IF IsString(valRes[i])
           THEN foldQuasis(node, i + 1,
                           Append(Append(resolvedParts, node.quasis[i]),
                                  valRes[i].value.s),
                           valRes)
           ELSE [isDynamic |-> TRUE,
                 resolvedParts |-> Append(resolvedParts, node.quasis[i])]
  ELSE foldQuasis(node, i + 1, Append(resolvedParts, node.quasis[i]), valRes)

\* Handle Imports: the initializers of the exports an import binding names,
\* in the order the traversal of the imported file finds them
ImportedInits(binding, importerArg) ==
  IF binding.specifier = "ImportSpecifier" /\ importerArg.present
    THEN LET text == CallImporter(importerArg, binding.source)
         IN  IF text.kind = "text" /\ parseCode(text) # Null
               THEN MatchingExports(parseCode(text).body, ImportedName(binding))
               ELSE <<>>
    ELSE <<>>

\* right.value + left.value
Concat_Swapped(left, right) ==
  IF IsString(left) /\ IsString(right)
    THEN Resolved(StrV(right.value.s \o left.value.s))
    ELSE Dynamic

\* left.value + right.value when both operands are strings
Concat(left, right) ==
  IF IsString(left) /\ IsString(right)
    THEN Resolved(StrV(left.value.s \o right.value.s))
    ELSE Dynamic

\* the template branch's result from the loop's locals
TemplateResult_KeepsParts(r) ==
  [value |-> StrV(Join(r.resolvedParts)), isDynamic |-> r.isDynamic]

TemplateResult(r) ==
  IF ~r.isDynamic THEN Resolved(StrV(Join(r.resolvedParts))) ELSE Dynamic

\* the value of an object property, when the member is an ObjectProperty
PropValue(prop) == IF prop.type = "ObjectProperty" THEN prop.value ELSE Null

\* the properties of an element that is an object expression
PropsOf(el) == IF el.type = "ObjectExpression" THEN el.properties ELSE <<>>

\* the scope the initializer of an export is folded in, given the scope of
\* the importing file: the importing file's scope itself
ExportScope_Importing(scope) == scope

\* the scope the initializer of an export is folded in: { getBinding: () => null }
ExportScope(scope) == DummyScope

\* the importer the initializer of an export is folded with: undefined
ExportImporter(importerArg) == NoImporter

RECURSIVE foldConstant(_, _, _, _)
foldConstant(nodeArg, scope, importerArg, depth) ==
  IF nodeArg = Null THEN Dynamic
  ELSE LET node == UnwrapTS(nodeArg)
       IN  IF DepthExceeded(depth) THEN Dynamic
           ELSE IF node.type = "StringLiteral" THEN Resolved(StrV(node.value))
           ELSE IF node.type = "TemplateLiteral" /\ Len(node.expressions) = 0
             THEN Resolved(StrV(node.quasis[1]))
           ELSE IF node.type = "ArrayExpression"
             THEN ArrayResult(foldElements(node.elements, 1, "unknown", <<>>, <<>>,
                    [i \in 1..Len(node.elements) |->
                       foldConstant(node.elements[i], scope, importerArg, depth + 1)],
                    [i \in 1..Len(node.elements) |->
                       [j \in 1..Len(PropsOf(node.elements[i])) |->
                          foldConstant(PropValue(PropsOf(node.elements[i])[j]), scope,
                                       importerArg, depth + 1)]]))
           ELSE IF node.type = "Identifier"
             THEN LET binding == getBinding(scope, node.name)
                      inits == ImportedInits(binding, importerArg)
                  IN  IF binding.kind = "none" THEN Dynamic
                      ELSE IF binding.kind = "module"
                        THEN IF inits = <<>> THEN Dynamic
                             ELSE foldConstant(inits[Len(inits)], ExportScope(scope),
                                               ExportImporter(importerArg), depth + 1)
                      ELSE IF binding.isVariableDeclarator
                        THEN foldConstant(UnwrapInit(binding.init), scope, importerArg,
                                          depth + 1)
                      ELSE Dynamic
           ELSE IF node.type = "TemplateLiteral"
             THEN TemplateResult(foldQuasis(node, 1, <<>>,
                    [i \in 1..Len(node.expressions) |->
                       foldConstant(node.expressions[i], scope, importerArg, depth + 1)]))
           ELSE IF node.type = "BinaryExpression" /\ node.operator = "+"
             THEN Concat(foldConstant(node.left, scope, importerArg, depth + 1),
                         foldConstant(node.right, scope, importerArg, depth + 1))
           ELSE Dynamic

\* what the array loop makes of an element whose fold is res: it collects a
\* string, collects an object, or stops
ElementKind(el, res) ==
  IF el = Null THEN "hole"
  ELSE IF IsString(res) THEN "string"
  ELSE IF el.type = "ObjectExpression" THEN "object"
  ELSE "mixed"

\* the module paths the call foldConstant(nodeArg, scope, importerArg, depth)
\* hands to the importer: those of the folds it makes, the loops' early
\* exits taken into account
RECURSIVE importerCalls(_, _, _, _)
importerCalls(nodeArg, scope, importerArg, depth) ==
  IF nodeArg = Null THEN {}
  ELSE LET node == UnwrapTS(nodeArg)
       IN  IF DepthExceeded(depth) THEN {}
           ELSE IF node.type = "ArrayExpression"
             THEN LET kind == [i \in 1..Len(node.elements) |->
                                ElementKind(node.elements[i],
                                            foldConstant(node.elements[i], scope,
                                                         importerArg, depth + 1))]
                      \* the loop reaches element i
                      reached == {i \in 1..Len(node.elements) :
                                    /\ node.elements[i] # Null
                                    /\ \A j \in 1..(i - 1) : kind[j] # "mixed"
                                    /\ \A j, k \in 1..(i - 1) :
                                         (kind[j] # "hole" /\ kind[k] # "hole")
                                           => kind[j] = kind[k]}
                      \* the loop folds the properties of element i
                      opened == {i \in reached :
                                   /\ kind[i] = "object"
                                   /\ \A j \in 1..(i - 1) : kind[j] \in {"hole", "object"}}
                  IN  UNION {importerCalls(node.elements[i], scope, importerArg,
                                           depth + 1) : i \in reached}
                        \cup UNION {UNION {importerCalls(node.elements[i].properties[j].value,
                                                         scope, importerArg, depth + 1) :
                                             j \in {j \in 1..Len(node.elements[i].properties) :
                                                      /\ node.elements[i].properties[j].type
                                                           = "ObjectProperty"
                                                      /\ node.elements[i].properties[j].key.type
                                                           = "Identifier"}} :
                                      i \in opened}
           ELSE IF node.type = "Identifier"
             THEN LET binding == getBinding(scope, node.name)
                      inits == ImportedInits(binding, importerArg)
                  IN  IF binding.kind = "none" THEN {}
                      ELSE IF binding.kind = "module"
                        THEN IF binding.specifier = "ImportSpecifier" /\ importerArg.present
                               THEN {binding.source}
                                      \cup UNION {importerCalls(inits[i], ExportScope(scope),
                                                                ExportImporter(importerArg),
                                                                depth + 1) :
                                                    i \in 1..Len(inits)}
                               ELSE {}
                      ELSE IF binding.isVariableDeclarator
                        THEN importerCalls(UnwrapInit(binding.init), scope, importerArg,
                                           depth + 1)
                      ELSE {}
           ELSE IF node.type = "TemplateLiteral"
             THEN UNION {importerCalls(node.expressions[i], scope, importerArg, depth + 1) :
                           i \in {i \in 1..Len(node.expressions) :
                                    \A j \in 1..(i - 1) :
                                      IsString(foldConstant(node.expressions[j], scope,
                                                            importerArg, depth + 1))}}
           ELSE IF node.type = "BinaryExpression" /\ node.operator = "+"
             THEN importerCalls(node.left, scope, importerArg, depth + 1)
                    \cup importerCalls(node.right, scope, importerArg, depth + 1)
           ELSE {}

(***************************************************************************)
(* resolveNamespaceFromCall                                                *)
(***************************************************************************)
\* callExpr.arguments[0]
FirstArg(callExpr) ==
  IF Len(callExpr.arguments) = 0 THEN Null ELSE callExpr.arguments[1]

\* a JavaScript truthiness test of a value that is a string, null or undefined
Truthy(v) == v.t = "string" /\ v.s # ""

\* the placeholder of the dynamic case used for a missing argument
NoNamespacePlaceholder_Dynamic(fileName, line) ==
  "<dynamic:" \o fileName \o ":L" \o ToString(line) \o ">"

\* `<no-namespace:${fileName}:L${line}>`
NoNamespacePlaceholder(fileName, line) ==
  "<no-namespace:" \o fileName \o ":L" \o ToString(line) \o ">"

\* `<dynamic:${fileName}:L${line}>`
DynamicPlaceholder(fileName, line) ==
  "<dynamic:" \o fileName \o ":L" \o ToString(line) \o ">"

resolveNamespaceFromCall(callExpr, scope, importerArg, fileName, line) ==
  LET firstArg == FirstArg(callExpr)
      res == foldConstant(firstArg, scope, importerArg, 0)
      dynamic == [namespace |-> NullV, isDynamic |-> TRUE,
                  dynamicPlaceholder |-> StrV(DynamicPlaceholder(fileName, line))]
  IN  IF firstArg = Null
        THEN [namespace |-> NullV, isDynamic |-> TRUE,
              dynamicPlaceholder |-> StrV(NoNamespacePlaceholder(fileName, line))]
      ELSE IF IsString(res)
        THEN [namespace |-> res.value, isDynamic |-> FALSE, dynamicPlaceholder |-> NullV]
      ELSE IF firstArg.type = "TemplateLiteral" /\ Len(firstArg.expressions) > 0
        THEN LET r == foldQuasis(firstArg, 1, <<>>,
                               [i \in 1..Len(firstArg.expressions) |->
                                  foldConstant(firstArg.expressions[i], scope,
                                               importerArg, 0)])
             IN  IF ~r.isDynamic
                   THEN [namespace |-> StrV(Join(r.resolvedParts)), isDynamic |-> FALSE,
                         dynamicPlaceholder |-> NullV]
                   ELSE dynamic
      ELSE dynamic

(***************************************************************************)
(* analyzeUseTranslations                                                  *)
(***************************************************************************)
\* the call a declarator's initializer makes, directly or awaited
CallOfInit(init) == IF init.type = "AwaitExpression" THEN init.argument ELSE init

\* the callee's name in analyzeUseTranslations: an identifier, or the
\* property of a member expression
FunctionName(callee) ==
  IF callee.type = "Identifier" THEN StrV(callee.name)
  ELSE IF callee.type = "MemberExpression" /\ callee.property.type = "Identifier"
    THEN StrV(callee.property.name)
  ELSE NullV

IsAccessorName(fn) == fn = StrV("useTranslations") \/ fn = StrV("getTranslations")

\* path.basename of a path given as its segments
Basename(path) == path[Len(path)]

\* filePath ? path.basename(filePath) : 'unknown'
FileName(path) == IF path # <<>> THEN Basename(path) ELSE "unknown"

\* the VariableDeclarator visitor: the results it pushes for one declarator
VariableDeclaratorVisitor(decl) ==
  LET callExpr == CallOfInit(decl.init)
  IN  IF decl.id.type # "Identifier" THEN <<>>
      ELSE IF callExpr.type # "CallExpression" THEN <<>>
      ELSE IF ~IsAccessorName(FunctionName(callExpr.callee)) THEN <<>>
      ELSE LET r == resolveNamespaceFromCall(callExpr, decl.scope, importer,
                                             FileName(filePath), decl.line)
           IN  <<[variableName |-> decl.id.name,
                  namespace |-> r.namespace,
                  isDynamic |-> r.isDynamic,
                  dynamicPlaceholder |-> r.dynamicPlaceholder,
                  location |-> [start |-> decl.start, end |-> decl.end,
                                line |-> decl.line]]>>

(***************************************************************************)
(* analyzeTranslationUsages                                                *)
(***************************************************************************)
\* varNamespaceMap.has(name), varNamespaceMap.get(name)
MapHas(map, name) == \E e \in map : e.k = name

MapGet(map, name) ==
  IF MapHas(map, name) THEN StrV((CHOOSE e \in map : e.k = name).v) ELSE NullV

\* variableName and methodName of a call's callee
CalleeNames(callee) ==
  IF callee.type = "Identifier"
    THEN [variableName |-> StrV(callee.name), methodName |-> NullV, skip |-> FALSE]
  ELSE IF callee.type = "MemberExpression" /\ callee.object.type = "Identifier"
    THEN LET methodName == IF callee.property.type = "Identifier"
                             THEN StrV(callee.property.name) ELSE NullV
         IN  [variableName |-> StrV(callee.object.name), methodName |-> methodName,
              skip |-> Truthy(methodName)
                         /\ methodName.s \notin {"rich", "markup", "raw"}]
  ELSE [variableName |-> NullV, methodName |-> NullV, skip |-> FALSE]

\* callExpr.callee?.name || callExpr.callee?.property?.name
FnName(callee) ==
  IF callee.type = "Identifier" /\ callee.name # "" THEN StrV(callee.name)
  ELSE IF callee.type = "MemberExpression" /\ callee.property.type = "Identifier"
    THEN StrV(callee.property.name)
  ELSE NullV

\* binding.path.node.init
InitOf(binding) == IF binding.isVariableDeclarator THEN binding.init ELSE Null

\* if (res.namespace) namespace = res.namespace
AcceptScopeNamespace(res) == Truthy(res.namespace)

\* Scope-based resolution first: the namespace of the accessor call that
\* initialises the callee variable's binding, or undefined
ScopeNamespace(scope, variableName) ==
  LET binding == getBinding(scope, variableName)
  IN  IF binding.kind = "none" THEN NullV
      ELSE LET callExpr == CallOfInit(InitOf(binding))
           IN  IF callExpr.type = "CallExpression"
                    /\ IsAccessorName(FnName(callExpr.callee))
                 THEN LET res == resolveNamespaceFromCall(callExpr, binding.scope,
                                                          importer, "unknown", 0)
                      IN  IF AcceptScopeNamespace(res) THEN res.namespace ELSE NullV
                 ELSE NullV

\* Fallback to map if scope resolution failed
Namespace(scope, variableName) ==
  LET namespace == ScopeNamespace(scope, variableName)
  IN  IF ~Truthy(namespace) /\ MapHas(varNamespaceMap, variableName)
        THEN MapGet(varNamespaceMap, variableName)
        ELSE namespace

\* the skip left out: every call on an identifier is taken for a lookup
NotAnAccessor_NoSkip(namespace, variableName) == FALSE

\* if (!namespace && !varNamespaceMap.has(variableName)) return
NotAnAccessor(namespace, variableName) ==
  ~Truthy(namespace) /\ ~MapHas(varNamespaceMap, variableName)

\* the array a callback parameter iterates: the fold of X when the binding
\* is a parameter of a function whose parent is a call X.map(...)
MappedArray(scope, paramName) ==
  LET binding == getBinding(scope, paramName)
  IN  IF binding.kind = "param"
           /\ binding.fnParent.type = "CallExpression"
           /\ binding.fnParent.callee.type = "MemberExpression"
           /\ binding.fnParent.callee.property = Id("map")
           /\ binding.fnParent.callee.object.type = "Identifier"
        THEN foldConstant(binding.fnParent.callee.object, scope, importer, 0)
        ELSE Dynamic

\* members every object literal inherits from Object.prototype
ObjectPrototype == {"constructor", "toString", "valueOf", "hasOwnProperty"}

\* `${member}` of an inherited member: the text of the native function
NativeText(propertyName) ==
  "function " \o (IF propertyName = "constructor" THEN "Object" ELSE propertyName)
    \o "() { [native code] }"

\* item[propertyName] of a folded object `obj = {}` with its collected
\* properties: the own property, else the inherited member (a function, here
\* by the text it has in a key), else undefined
PropOf(item, propertyName) ==
  IF \E e \in item : e.k = propertyName
    THEN StrV((CHOOSE e \in item : e.k = propertyName).v)
  ELSE IF propertyName \in ObjectPrototype THEN StrV(NativeText(propertyName))
  ELSE NullV

\* the values item[propertyName] of the items that have a truthy one
RECURSIVE TruthyProps(_, _)
TruthyProps(items, propertyName) ==
  IF items = <<>> THEN <<>>
  ELSE (IF Truthy(PropOf(Head(items), propertyName))
          THEN <<PropOf(Head(items), propertyName).s>> ELSE <<>>)
         \o TruthyProps(Tail(items), propertyName)

\* keysToEmit without the map-iteration branches
KeysToEmit_SingleOnly(firstArg, scope) ==
  IF IsString(foldConstant(firstArg, scope, importer, 0))
    THEN <<foldConstant(firstArg, scope, importer, 0).value.s>>
    ELSE <<>>

\* keysToEmit of a call with first argument firstArg
KeysToEmit(firstArg, scope) ==
  LET valRes == foldConstant(firstArg, scope, importer, 0)
  IN  IF IsString(valRes) THEN <<valRes.value.s>>
      ELSE IF firstArg.type = "Identifier"
        THEN LET arrayRes == MappedArray(scope, firstArg.name)
             IN  IF ~arrayRes.isDynamic /\ arrayRes.value.t = "string[]"
                      /\ Len(arrayRes.value.items) > 0
                   THEN arrayRes.value.items
                   ELSE <<>>
      ELSE IF firstArg.type = "MemberExpression" /\ firstArg.property.type = "Identifier"
        THEN IF firstArg.object.type = "Identifier"
               THEN LET arrayRes == MappedArray(scope, firstArg.object.name)
                    IN  IF ~arrayRes.isDynamic /\ arrayRes.value.t = "object[]"
                             /\ Len(arrayRes.value.items) > 0
                          THEN TruthyProps(arrayRes.value.items, firstArg.property.name)
                          ELSE <<>>
               ELSE <<>>
      ELSE <<>>

\* namespace ? `${namespace}.${key}` : key
FullKey_Defined(namespace, key) ==
  IF namespace.t = "string" THEN namespace.s \o "." \o key ELSE key

\* fullKey = namespace ? `${namespace}.${key}` : key
FullKey(namespace, key) ==
  IF Truthy(namespace) THEN namespace.s \o "." \o key ELSE key

\* quoted, tested on the argument without its type-assertion wrappers
Quoted_Unwrapped(firstArg) ==
  UnwrapTS(firstArg).type \in {"StringLiteral", "TemplateLiteral"}

\* quoted: firstArg.type === 'StringLiteral' || firstArg.type === 'TemplateLiteral'
Quoted(firstArg) == firstArg.type \in {"StringLiteral", "TemplateLiteral"}

\* the CallExpression visitor: the results it pushes for one call
CallExpressionVisitor(call) ==
  LET names == CalleeNames(call.node.callee)
      variableName == names.variableName.s
      namespace == Namespace(call.scope, variableName)
      firstArg == FirstArg(call.node)
      keysToEmit == KeysToEmit(firstArg, call.scope)
  IN  IF names.skip \/ ~Truthy(names.variableName) THEN <<>>
      ELSE IF NotAnAccessor(namespace, variableName) THEN <<>>
      ELSE IF firstArg = Null THEN <<>>
      ELSE [i \in 1..Len(keysToEmit) |->
              [key |-> FullKey(namespace, keysToEmit[i]),
               start |-> call.start,
               end |-> call.end,
               quoted |-> Quoted(firstArg),
               variableName |-> variableName,
               namespace |-> namespace]]

(***************************************************************************)
(* Source files under analysis                                             *)
(***************************************************************************)
MaxElems == 3

MaxChain == 7

\* a variable declarator `const name = init` in a scope
Decl(name, init, scope) == [id |-> Id(name), kind |-> "const", init |-> init, scope |-> scope]

\* a parameter of the function that opens `scope`; fnParent is the node the
\* function is a child of
Param(name, scope, fnParent) == [name |-> name, scope |-> scope, fnParent |-> fnParent]

\* import { imported as local } from source
Import(local, imported, source) ==
  [local |-> local, imported |-> imported, source |-> source,
   specifier |-> "ImportSpecifier"]

\* import local from source
ImportDefault(local, source) ==
  [local |-> local, imported |-> "default", source |-> source,
   specifier |-> "ImportDefaultSpecifier"]

\* a call expression in a scope
Site(node, scope) == [node |-> node, scope |-> scope]

\* the file: scopes, bindings and calls, each node with its source location
MkCode(parent, decls, params, imports, calls) ==
  [parent |-> parent,
   declarators |-> [i \in 1..Len(decls) |->
                     [id |-> decls[i].id, kind |-> decls[i].kind, init |-> decls[i].init,
                      scope |-> decls[i].scope, line |-> i,
                      start |-> 10 * i, end |-> 10 * i + 5]],
   params |-> params,
   imports |-> imports,
   calls |-> [i \in 1..Len(calls) |->
               [node |-> calls[i].node, scope |-> calls[i].scope,
                start |-> 100 + 10 * i, end |-> 100 + 10 * i + 5]]]

Scenario(c, map, imp, path) == [code |-> c, map |-> map, importer |-> imp, path |-> path]

MapOf(name, ns) == {[k |-> name, v |-> ns]}

\* sequences over S of length 0..n
SeqsUpTo(S, n) == UNION {[1..k -> S] : k \in 0..n}

\* the accessor calls the analyzers recognise, and one they do not
AccessorForms(args) ==
  {Call(Id("useTranslations"), args),
   Await(Call(Id("getTranslations"), args)),
   Call(Member(Id("intl"), Id("useTranslations")), args),
   Call(Id("makeTranslator"), args)}

\* function A() { const t = <accessor>(<argA>); t('k1') }
\* function B() { const t = useTranslations(<argB>); t.rich('k2') }
\* t('k3'); u('k4')
ScopedFiles ==
  {MkCode(<<0, 1, 1>>,
          <<Decl("t", accA, 2), Decl("t", Call(Id("useTranslations"), <<Str(nsB)>>), 3)>>,
          <<>>, <<>>,
          <<Site(CallOfInit(accA), 2),
            Site(Call(Id("t"), <<Str("k1")>>), 2),
            Site(Call(Id("useTranslations"), <<Str(nsB)>>), 3),
            Site(Call(Member(Id("t"), Id("rich")), <<Str("k2")>>), 3),
            Site(Call(Id("t"), <<Str("k3")>>), 1),
            Site(Call(Id("u"), <<Str("k4")>>), 1)>>) :
     accA \in UNION {AccessorForms(args) :
                       args \in {<<>>, <<Str("")>>, <<Str("a")>>, <<Id("unknown")>>,
                                 <<Tpl(<<"a.", "">>, <<Id("unknown")>>)>>}},
     nsB \in {"", "b"}}

ScopedScenarios ==
  {Scenario(c, map, NoImporter, path) :
     c \in ScopedFiles,
     map \in {{}, MapOf("t", "m"), MapOf("t", "")},
     path \in {<<>>, <<"src", "page.tsx">>}}

\* zero or one declarator `const name = 'value'`, by the value offered
OptDecl(name, value, scope) ==
  IF value = <<>> THEN <<>> ELSE <<Decl(name, Str(value[1]), scope)>>

\* [const ns = 'g'] [const key = 'gk']
\* function A() { const t = useTranslations(ns); t(key) }
\* function B() { [const ns = 'l'] [const key = 'lk']
\*                const t = useTranslations(ns); t(key)
\*                () => { [const ns = 'i'] [const key = 'ik']
\*                        const u = useTranslations(ns); u(key) } }
ShadowFiles ==
  {MkCode(<<0, 1, 1, 3>>,
          OptDecl("ns", g, 1) \o OptDecl("key", gk, 1)
            \o <<Decl("t", Call(Id("useTranslations"), <<Id("ns")>>), 2)>>
            \o OptDecl("ns", l, 3) \o OptDecl("key", lk, 3)
            \o <<Decl("t", Call(Id("useTranslations"), <<Id("ns")>>), 3)>>
            \o OptDecl("ns", i, 4) \o OptDecl("key", ik, 4)
            \o <<Decl("u", Call(Id("useTranslations"), <<Id("ns")>>), 4)>>,
          <<>>, <<>>,
          <<Site(Call(Id("useTranslations"), <<Id("ns")>>), 2),
            Site(Call(Id("t"), <<Id("key")>>), 2),
            Site(Call(Id("useTranslations"), <<Id("ns")>>), 3),
            Site(Call(Id("t"), <<Id("key")>>), 3),
            Site(Call(Id("useTranslations"), <<Id("ns")>>), 4),
            Site(Call(Id("u"), <<Id("key")>>), 4)>>) :
     g \in {<<>>, <<"g">>}, gk \in {<<>>, <<"gk">>},
     l \in {<<>>, <<"l">>}, lk \in {<<>>, <<"lk">>},
     i \in {<<>>, <<"i">>}, ik \in {<<>>, <<"ik">>}}

ShadowScenarios ==
  {Scenario(c, MapOf("t", "m") \cup MapOf("u", "m"), NoImporter, <<>>) :
     c \in ShadowFiles}

\* the string elements of the literal arrays
Elems == {Str("a"), Str("b"), Tpl(<<"c">>, <<>>)}

\* the ways a file binds ITEMS to a literal array and names what it maps:
\* const ITEMS = [...]; const ITEMS = [...] as const; the literal itself
ArrayBindings(elements) ==
  {[decls |-> <<Decl("ITEMS", Arr(elements), 1)>>, object |-> Id("ITEMS")],
   [decls |-> <<Decl("ITEMS", TSAs(Arr(elements)), 1)>>, object |-> Id("ITEMS")],
   [decls |-> <<>>, object |-> Arr(elements)]}

\* [const ITEMS = <array>]
\* <ITEMS or the array>.<method>(cat => t(cat))
MapFiles ==
  {MkCode(<<0, 1>>, b.decls,
          <<Param("cat", 2, Call(Member(b.object, Id(method)), <<Arrow>>))>>, <<>>,
          <<Site(Call(Member(b.object, Id(method)), <<Arrow>>), 1),
            Site(Call(Id("t"), <<Id("cat")>>), 2)>>) :
     b \in UNION {ArrayBindings(elements) : elements \in SeqsUpTo(Elems, MaxElems)},
     method \in {"map", "forEach"}}

MapScenarios ==
  {Scenario(c, MapOf("t", ns), NoImporter, <<>>) : c \in MapFiles, ns \in {"ns", ""}}

\* the texts an importer returns for './constants'
Modules ==
  {Text(FALSE, <<>>),
   Text(TRUE, <<>>),
   Text(TRUE, <<ExportConst("KEY", Str("x"))>>),
   Text(TRUE, <<ExportConst("LOCAL", Str("wrong")), ExportConst("KEY", Str("x"))>>),
   Text(TRUE, <<ExportConst("KEY", Tpl(<<"x">>, <<>>)), PlainConst("LOCAL", Str("wrong"))>>),
   Text(TRUE, <<PlainConst("KEY", Str("x")), ExportList("KEY")>>),
   Text(TRUE, <<ExportConst("KEY", Null)>>),
   Text(TRUE, <<ExportConst("OTHER", Str("o")), ExportConst("KEY", Id("OTHER"))>>),
   Text(TRUE, <<ExportConst("KEY", Arr(<<Str("x"), Str("y")>>))>>),
   Text(TRUE, <<ExportConst("OTHER", Arr(<<Str("o")>>))>>)}

\* no resolver, a resolver that finds no file, and resolvers that return a text
Importers ==
  {NoImporter, [present |-> TRUE, files |-> {}]}
    \cup {[present |-> TRUE, files |-> {[path |-> "./constants", text |-> m]}] :
            m \in Modules}

\* import { KEY as <local> } from './constants'   (or: import <local> from ...)
\* import { GONE } from './missing'
\* t(<local>)
\* <local>.map(cat => t(cat))
\* t(GONE)
ImportFiles ==
  {MkCode(<<0, 1>>, <<>>,
          <<Param("cat", 2, Call(Member(Id(imp.local), Id("map")), <<Arrow>>))>>,
          <<imp, Import("GONE", "GONE", "./missing")>>,
          <<Site(Call(Id("t"), <<Id(imp.local)>>), 1),
            Site(Call(Member(Id(imp.local), Id("map")), <<Arrow>>), 1),
            Site(Call(Id("t"), <<Id("cat")>>), 2),
            Site(Call(Id("t"), <<Id("GONE")>>), 1)>>) :
     imp \in {Import("KEY", "KEY", "./constants"),
              Import("LOCAL", "KEY", "./constants"),
              ImportDefault("KEY", "./constants")}}

ImportScenarios ==
  {Scenario(c, MapOf("t", "ns"), imp, <<>>) : c \in ImportFiles, imp \in Importers}

\* the i-th name of an alias chain
KName(i) == "k" \o ToString(i)

\* const k1 = k2; ...; const k<n-1> = k<n>; const k<n> = <end>
\* with every alias initializer optionally written `k<i+1> as string`
ChainDecls(n, end, wrap) ==
  [i \in 1..n |->
     Decl(KName(i),
          IF i = n THEN end
          ELSE IF wrap THEN TSAs(Id(KName(i + 1))) ELSE Id(KName(i + 1)),
          1)]

\* <chain>; const a = b; const b = a
\* const t = useTranslations(k1); const u = useTranslations(k2)
\* const w = useTranslations(a); const x = useTranslations(`p.${k1}`)
\* t(k1); u(k2); w(a)
ChainFile(n, end, wrap) ==
  MkCode(<<0>>,
          ChainDecls(n, end, wrap)
            \o <<Decl("a", Id("b"), 1), Decl("b", Id("a"), 1),
                 Decl("t", Call(Id("useTranslations"), <<Id(KName(1))>>), 1),
                 Decl("u", Call(Id("useTranslations"), <<Id(KName(2))>>), 1),
                 Decl("w", Call(Id("useTranslations"), <<Id("a")>>), 1),
                 Decl("x", Call(Id("useTranslations"),
                                <<Tpl(<<"p.", "">>, <<Id(KName(1))>>)>>), 1)>>,
          <<>>, <<>>,
          <<Site(Call(Id("useTranslations"), <<Id(KName(1))>>), 1),
            Site(Call(Id("useTranslations"), <<Id(KName(2))>>), 1),
            Site(Call(Id("useTranslations"), <<Id("a")>>), 1),
            Site(Call(Id("t"), <<Id(KName(1))>>), 1),
            Site(Call(Id("u"), <<Id(KName(2))>>), 1),
            Site(Call(Id("w"), <<Id("a")>>), 1)>>)

\* chains of every length that end in a string, in their own head (a cycle)
\* or in their own last name (a self-reference)
ChainFiles ==
  UNION {{ChainFile(n, end, wrap) :
            end \in {Str("v"), Id(KName(1)), Id(KName(n))}, wrap \in BOOLEAN} :
           n \in 1..MaxChain}

ChainScenarios ==
  {Scenario(c, MapOf("t", "m") \cup MapOf("u", "m") \cup MapOf("w", "m"),
            NoImporter, <<>>) : c \in ChainFiles}

\* const a = <x>; const b = <y>
\* const t1 = useTranslations(a + b); const t2 = useTranslations(`${a}${b}`)
\* const ns1 = a + b; const ns2 = `${a}${b}`
\* const t3 = useTranslations(ns1); const t4 = useTranslations(ns2)
\* t1('k'); t3('k')
ConcatFiles ==
  {MkCode(<<0>>,
          <<Decl("a", Str(x), 1), Decl("b", Str(y), 1),
            Decl("t1", Call(Id("useTranslations"), <<Bin("+", Id("a"), Id("b"))>>), 1),
            Decl("t2", Call(Id("useTranslations"),
                            <<Tpl(<<"", "", "">>, <<Id("a"), Id("b")>>)>>), 1),
            Decl("ns1", Bin("+", Id("a"), Id("b")), 1),
            Decl("ns2", Tpl(<<"", "", "">>, <<Id("a"), Id("b")>>), 1),
            Decl("t3", Call(Id("useTranslations"), <<Id("ns1")>>), 1),
            Decl("t4", Call(Id("useTranslations"), <<Id("ns2")>>), 1)>>,
          <<>>, <<>>,
          <<Site(Call(Id("t1"), <<Str("k")>>), 1),
            Site(Call(Id("t3"), <<Str("k")>>), 1)>>) :
     x \in {"", "p", "q", "r.s"}, y \in {"", "p", "q", "r.s"}}

ConcatScenarios == {Scenario(c, {}, NoImporter, <<>>) : c \in ConcatFiles}

\* key arguments that are themselves string or template literals
LiteralKeyArgs ==
  {Str("s"), Tpl(<<"s">>, <<>>), Tpl(<<"", ".x">>, <<Id("prefix")>>),
   Tpl(<<"a.", "">>, <<Str("lit")>>), Tpl(<<"a.", "">>, <<Id("unknown")>>)}

\* key arguments that are not
OtherKeyArgs ==
  {Id("key"), TSAs(Str("s")), TSNonNull(Id("key")), Bin("+", Str("a"), Str("b")),
   Bin("+", Id("prefix"), Str(".x")), Id("unknown"), Num(1)}

\* const prefix = 'p'; const key = 'k'
\* t('s'); t(<literal argument>); t(<other argument>)
KeyArgFiles ==
  {MkCode(<<0>>, <<Decl("prefix", Str("p"), 1), Decl("key", Str("k"), 1)>>,
          <<>>, <<>>,
          <<Site(Call(Id("t"), <<Str("s")>>), 1),
            Site(Call(Id("t"), <<lit>>), 1),
            Site(Call(Id("t"), <<other>>), 1)>>) :
     lit \in LiteralKeyArgs, other \in OtherKeyArgs}

KeyArgScenarios == {Scenario(c, MapOf("t", "ns"), NoImporter, <<>>) : c \in KeyArgFiles}

\* the members a lookup variable is called through: t.name and t['name']
MemberProperties ==
  {Id(m) : m \in {"rich", "markup", "raw", "format", "has"}}
    \cup {Str(m) : m \in {"rich", "format"}}

\* t.<member>('k1') or t['<member>']('k1'); t('k2')
MemberFiles ==
  {MkCode(<<0>>, <<>>, <<>>, <<>>,
          <<Site(Call(Member(Id("t"), property), <<Str("k1")>>), 1),
            Site(Call(Id("t"), <<Str("k2")>>), 1)>>) :
     property \in MemberProperties}

MemberScenarios ==
  {Scenario(c, map, NoImporter, <<>>) : c \in MemberFiles, map \in {MapOf("t", "m"), {}}}

\* the calls a callback `cat => t(cat)` is part of
CallbackCalls ==
  {Call(Member(Id("ITEMS"), Id("map")), <<Arrow>>),
   Call(Member(Id("ITEMS"), Id("map")), <<Arrow, Id("ctx")>>),
   Call(Member(Id("ITEMS"), Id("map")), <<Id("ctx"), Arrow>>),
   Call(Member(Id("ITEMS"), Id("forEach")), <<Arrow>>),
   Call(Member(Member(Id("data"), Id("ITEMS")), Id("map")), <<Arrow>>),
   Call(Id("each"), <<Arrow>>),
   Call(Arrow, <<Id("ITEMS")>>)}

\* const ITEMS = ['a', 'b']
\* <call with the callback cat => t(cat)>,  or  const fn = cat => t(cat)
CallbackFiles ==
  {MkCode(<<0, 1>>, <<Decl("ITEMS", Arr(<<Str("a"), Str("b")>>), 1)>>,
          <<Param("cat", 2, parent)>>, <<>>,
          <<Site(parent, 1), Site(Call(Id("t"), <<Id("cat")>>), 2)>>) :
     parent \in CallbackCalls}
    \cup {MkCode(<<0, 1>>, <<Decl("ITEMS", Arr(<<Str("a"), Str("b")>>), 1),
                             Decl("fn", Arrow, 1)>>,
                 <<Param("cat", 2, [type |-> "VariableDeclarator"])>>, <<>>,
                 <<Site(Call(Id("t"), <<Id("cat")>>), 2)>>)}

CallbackScenarios ==
  {Scenario(c, MapOf("t", "ns"), NoImporter, <<>>) : c \in CallbackFiles}

\* the object literals of the arrays that are mapped
ObjectElems ==
  {Obj(<<Prop(Id("label"), Str("x"))>>),
   Obj(<<Prop(Id("id"), Str("1")), Prop(Id("label"), Tpl(<<"y">>, <<>>))>>),
   Obj(<<Prop(Id("id"), Str("2"))>>),
   Obj(<<Prop(Id("label"), Str(""))>>),
   Obj(<<Prop(Id("label"), Id("unknown")), Spread(Id("rest"))>>)}

\* const ITEMS = [<objects>]
\* ITEMS.map(item => t(item.<prop>))
ObjectMapFiles ==
  {MkCode(<<0, 1>>, <<Decl("ITEMS", Arr(elements), 1)>>,
          <<Param("item", 2, Call(Member(Id("ITEMS"), Id("map")), <<Arrow>>))>>, <<>>,
          <<Site(Call(Member(Id("ITEMS"), Id("map")), <<Arrow>>), 1),
            Site(Call(Id("t"), <<Member(Id("item"), Id(prop))>>), 2)>>) :
     elements \in SeqsUpTo(ObjectElems, MaxElems),
     prop \in {"label", "id", "toString"}}

ObjectMapScenarios ==
  {Scenario(c, MapOf("t", ns), NoImporter, <<>>) : c \in ObjectMapFiles, ns \in {"ns", ""}}

\* const a = 'x'; const k = <a, a as const, `${a}` or a + '.z'>
\* t(k)
\* function A() { [const a = 'y'] const u = useTranslations(k); t(k); u('k1') }
AliasScopeFiles ==
  {MkCode(<<0, 1>>,
          <<Decl("a", Str("x"), 1), Decl("k", init, 1)>>
            \o OptDecl("a", inner, 2)
            \o <<Decl("u", Call(Id("useTranslations"), <<Id("k")>>), 2)>>,
          <<>>, <<>>,
          <<Site(Call(Id("t"), <<Id("k")>>), 1),
            Site(Call(Id("useTranslations"), <<Id("k")>>), 2),
            Site(Call(Id("t"), <<Id("k")>>), 2),
            Site(Call(Id("u"), <<Str("k1")>>), 2)>>) :
     init \in {Id("a"), TSAs(Id("a")), Tpl(<<"", "">>, <<Id("a")>>),
               Bin("+", Id("a"), Str(".z"))},
     inner \in {<<>>, <<"x">>, <<"y">>}}

AliasScopeScenarios ==
  {Scenario(c, MapOf("t", "ns"), NoImporter, <<>>) : c \in AliasScopeFiles}

\* let name = init / var name = init
Variable(kind, name, init, scope) ==
  [id |-> Id(name), kind |-> kind, init |-> init, scope |-> scope]

\* the assignment expression name = right, in a scope
Assign(name, right, scope) == [left |-> Id(name), right |-> right, scope |-> scope]

\* a file together with the assignment expressions it holds, which no visitor
\* of the analyzers visits
WithAssignments(c, assignments) == c @@ [assignments |-> assignments]

\* <let or var> k = 'a'
\* [k = 'b' or k = 'a', here or inside function A]
\* const u = useTranslations(k); t(k); u('k1')
\* function A() { t(k) }
ReassignFiles ==
  {WithAssignments(
     MkCode(<<0, 1>>,
            <<Variable(kind, "k", Str("a"), 1),
              Decl("u", Call(Id("useTranslations"), <<Id("k")>>), 1)>>,
            <<>>, <<>>,
            <<Site(Call(Id("useTranslations"), <<Id("k")>>), 1),
              Site(Call(Id("t"), <<Id("k")>>), 1),
              Site(Call(Id("u"), <<Str("k1")>>), 1),
              Site(Call(Id("t"), <<Id("k")>>), 2)>>),
     assignments) :
     kind \in {"let", "var"},
     assignments \in {<<>>} \cup {<<Assign("k", Str(v), sc)>> : v \in {"a", "b"}, sc \in {1, 2}}}

ReassignScenarios ==
  {Scenario(c, MapOf("t", "ns"), NoImporter, <<>>) : c \in ReassignFiles}

Scenarios ==
  ScopedScenarios \cup ShadowScenarios \cup MapScenarios \cup ImportScenarios
    \cup ChainScenarios \cup ConcatScenarios \cup KeyArgScenarios
    \cup MemberScenarios \cup CallbackScenarios \cup ObjectMapScenarios
    \cup AliasScopeScenarios \cup ReassignScenarios

(***************************************************************************)
(* The analysis of one file                                                *)
(***************************************************************************)
\* the analyzers are called directly, by no framework method
NoMethod ==
  /\ entry = ""
  /\ pc = ""
  /\ analysisIdx = 0
  /\ dynamicVars = {}
  /\ returned = <<>>

Init ==
  \E sc \in Scenarios :
    /\ code = sc.code
    /\ varNamespaceMap = sc.map
    /\ importer = sc.importer
    /\ filePath = sc.path
    /\ declIdx = 0
    /\ callIdx = 0
    /\ translationsAnalysis = <<>>
    /\ analyzedKeys = <<>>
    /\ folded = <<>>
    /\ NoMethod

\* analyzeUseTranslations: the traversal reaches the next variable declarator
AnalyzeUseTranslations ==
  /\ declIdx < Len(code.declarators)
  /\ declIdx' = declIdx + 1
  /\ translationsAnalysis' =
       translationsAnalysis \o VariableDeclaratorVisitor(code.declarators[declIdx + 1])
  /\ UNCHANGED <<code, varNamespaceMap, importer, filePath, callIdx, analyzedKeys,
                 folded, frameworkVars>>

\* analyzeTranslationUsages: the traversal reaches the next call expression
AnalyzeTranslationUsages ==
  /\ declIdx = Len(code.declarators)
  /\ callIdx < Len(code.calls)
  /\ callIdx' = callIdx + 1
  /\ analyzedKeys' = analyzedKeys \o CallExpressionVisitor(code.calls[callIdx + 1])
  /\ UNCHANGED <<code, varNamespaceMap, importer, filePath, declIdx,
                 translationsAnalysis, folded, frameworkVars>>

Next == AnalyzeUseTranslations \/ AnalyzeTranslationUsages

Spec == Init /\ [][Next]_vars

(***************************************************************************)
(* foldConstant on its own: calls with every node, scope and depth          *)
(***************************************************************************)
\* the depths foldConstant is called with: 0..MaxDepth
MaxDepth == 7

\* the wrappers put around one expression: 0..MaxWraps
MaxWraps == 2

Wrappers ==
  {"TSAsExpression", "TSTypeAssertion", "TSNonNullExpression", "TSSatisfiesExpression"}

\* the expression under the wrappers chain[1], chain[2], ... (outermost first)
RECURSIVE Wrap(_, _)
Wrap(chain, e) ==
  IF chain = <<>> THEN e
  ELSE [type |-> Head(chain), expression |-> Wrap(Tail(chain), e)]

WrapChains == SeqsUpTo(Wrappers, MaxWraps)

\* the module './constants' of the file the folds are made in:
\* import { FAR } from './far'
\* export const KEY = 'x'; export const LIST = ['x', 'y']
\* export const REF = KEY; export const DEEP = FAR
FoldModule ==
  Text(TRUE, <<ImportStatement("FAR", "./far"),
               ExportConst("KEY", Str("x")),
               ExportConst("LIST", Arr(<<Str("x"), Str("y")>>)),
               ExportConst("REF", Id("KEY")),
               ExportConst("DEEP", Id("FAR"))>>)

\* the module './far': what './constants' would import FAR from
FarModule == Text(TRUE, <<ExportConst("FAR", Str("far"))>>)

FoldImporter ==
  [present |-> TRUE,
   files |-> {[path |-> "./constants", text |-> FoldModule],
              [path |-> "./far", text |-> FarModule]}]

\* import { KEY, LIST, REF, DEEP } from './constants'
\* const s = 'v'; const sAs = 'v' as const; const sAssert = <string>'v'
\* const sNonNull = 'v'!; const sSat = 'v' satisfies string
\* const sTwo = ('v' satisfies string) as string
\* const alias = s; const aliasSat = s satisfies string
\* const list = ['a', 'b']; const listSat = ['a', 'b'] satisfies string[]
\* const FAR = 'here'
\* list.map(item => ...)
FoldFile ==
  MkCode(<<0, 1>>,
         <<Decl("s", Str("v"), 1),
           Decl("sAs", TSAs(Str("v")), 1),
           Decl("sAssert", TSTypeAssertion(Str("v")), 1),
           Decl("sNonNull", TSNonNull(Str("v")), 1),
           Decl("sSat", TSSatisfies(Str("v")), 1),
           Decl("sTwo", TSAs(TSSatisfies(Str("v"))), 1),
           Decl("alias", Id("s"), 1),
           Decl("aliasSat", TSSatisfies(Id("s")), 1),
           Decl("list", Arr(<<Str("a"), Str("b")>>), 1),
           Decl("listSat", TSSatisfies(Arr(<<Str("a"), Str("b")>>)), 1),
           Decl("FAR", Str("here"), 1)>>,
         <<Param("item", 2, Call(Member(Id("list"), Id("map")), <<Arrow>>))>>,
         <<Import("KEY", "KEY", "./constants"), Import("LIST", "LIST", "./constants"),
           Import("REF", "REF", "./constants"), Import("DEEP", "DEEP", "./constants")>>,
         <<Site(Call(Member(Id("list"), Id("map")), <<Arrow>>), 1)>>)

\* the expressions that are not built from others
Atoms ==
  {Str("a"), Str(""), Tpl(<<"c">>, <<>>), Num(1),
   Id("s"), Id("alias"), Id("list"), Id("unknown"), Id("item"),
   Id("KEY"), Id("LIST"), Id("REF"), Id("DEEP")}

\* the identifiers whose initializer is under type-assertion wrappers
WrappedNames == {"sAs", "sAssert", "sNonNull", "sSat", "sTwo", "aliasSat", "listSat"}

\* the elements of the array literals that are folded
ElementNodes ==
  {Null, Str("a"), Id("s"), Id("unknown"), Arr(<<Str("a")>>),
   Obj(<<Prop(Id("label"), Str("x"))>>), TSAs(Obj(<<Prop(Id("label"), Str("x"))>>)),
   Obj(<<Prop(Id("label"), Id("KEY")), Prop(Id("id"), Id("s")),
         Spread(Id("s"))>>)}

\* template literals and concatenations over the atoms
Compounds ==
  {Tpl(<<"p.", "">>, <<a>>) : a \in Atoms}
    \cup {Bin("+", a, Str(".k")) : a \in Atoms}
    \cup {Bin("+", Id("s"), a) : a \in Atoms}
    \cup {Bin("-", Str("a"), Str("b")), Obj(<<Prop(Id("label"), Str("x"))>>)}

\* the string literals of the longest literal-only expression: 1..MaxTerms
MaxTerms == 8

\* 'l1' + 'l2' + ... + 'ln', which the parser nests to the left
RECURSIVE LiteralSum(_)
LiteralSum(n) ==
  IF n = 1 THEN Str("l1")
  ELSE Bin("+", LiteralSum(n - 1), Str("l" \o ToString(n)))

\* `l1.${`l2.${ ... 'ln' ... }`}`, n - 1 template literals around one string
RECURSIVE LiteralTemplate(_)
LiteralTemplate(n) ==
  IF n = 1 THEN Str("l1")
  ELSE Tpl(<<"l" \o ToString(n) \o ".", "">>, <<LiteralTemplate(n - 1)>>)

\* expressions of string literals, + and interpolation, without identifiers
LiteralOnly ==
  {LiteralSum(n) : n \in 1..MaxTerms} \cup {LiteralTemplate(n) : n \in 1..MaxTerms}
    \cup {Bin("+", LiteralTemplate(n), LiteralSum(n)) : n \in 1..MaxTerms}

\* the nodes foldConstant is called with
FoldInputs ==
  Atoms \cup Compounds \cup {Id(n) : n \in WrappedNames} \cup LiteralOnly
    \cup {Arr(elements) : elements \in SeqsUpTo(ElementNodes, MaxElems)}
    \cup {Null}

FoldInit ==
  /\ code = FoldFile
  /\ varNamespaceMap = {}
  /\ importer \in {FoldImporter, NoImporter}
  /\ filePath = <<>>
  /\ declIdx = 0
  /\ callIdx = 0
  /\ translationsAnalysis = <<>>
  /\ analyzedKeys = <<>>
  /\ folded = <<>>
  /\ NoMethod

\* the record of one call foldConstant(node, scope, importer, depth): its
\* result and the module paths it handed to the importer; inner is the
\* expression the call's node was made from.  A behaviour is one call.
FoldCall(node, inner, scope, depth) ==
  [node |-> node, inner |-> inner, scope |-> scope, depth |-> depth,
   result |-> foldConstant(node, scope, importer, depth),
   calls |-> importerCalls(node, scope, importer, depth)]

\* foldConstant(node, scope, importer, depth)
FoldConstant ==
  /\ folded = <<>>
  /\ \E node \in FoldInputs, scope \in {DummyScope, 1, 2}, depth \in 0..MaxDepth :
       folded' = <<FoldCall(node, node, scope, depth)>>
  /\ UNCHANGED <<code, varNamespaceMap, importer, filePath, declIdx, callIdx,
                 translationsAnalysis, analyzedKeys, frameworkVars>>

\* foldConstant(node, scope, importer, depth) with node an expression under
\* type-assertion wrappers
FoldConstantWrapped ==
  /\ folded = <<>>
  /\ \E e \in Atoms \cup Compounds, chain \in WrapChains \ {<<>>},
        scope \in {1, 2}, depth \in 0..MaxDepth :
       folded' = <<FoldCall(Wrap(chain, e), e, scope, depth)>>
  /\ UNCHANGED <<code, varNamespaceMap, importer, filePath, declIdx, callIdx,
                 translationsAnalysis, analyzedKeys, frameworkVars>>

FoldNext == FoldConstant \/ FoldConstantWrapped

FoldSpec == FoldInit /\ [][FoldNext]_vars

(***************************************************************************)
(* The framework layer: detectKeys and getScopeRange                       *)
(***************************************************************************)
\* map.set(name, value)
MapSet(map, name, value) == {e \in map : e.k # name} \cup {[k |-> name, v |-> value]}

\* the accessor arguments of the documents: none, '', 'a', 'b', unknown
BindingArgs == {<<>>, <<Str("")>>, <<Str("a")>>, <<Str("b")>>, <<Id("unknown")>>}

\* function A() { const t = useTranslations(<argA>); t('k1') }
\* function B() { const t = useTranslations(<argB>); t('k2') }
\* function C() { const t = await getTranslations(<argC>); t('k3') }
\* t('k4')
DocumentFiles ==
  {MkCode(<<0, 1, 1, 1>>,
          <<Decl("t", Call(Id("useTranslations"), argA), 2),
            Decl("t", Call(Id("useTranslations"), argB), 3),
            Decl("t", Await(Call(Id("getTranslations"), argC)), 4)>>,
          <<>>, <<>>,
          <<Site(Call(Id("t"), <<Str("k1")>>), 2),
            Site(Call(Id("t"), <<Str("k2")>>), 3),
            Site(Call(Id("t"), <<Str("k3")>>), 4),
            Site(Call(Id("t"), <<Str("k4")>>), 1)>>) :
     argA \in BindingArgs, argB \in BindingArgs, argC \in BindingArgs}

\* this.createImporter(document), with no module next to the document
createImporter == [present |-> TRUE, files |-> {}]

\* a document is handed to detectKeys or to getScopeRange
FrameworkInit ==
  /\ code \in DocumentFiles
  /\ varNamespaceMap = {}
  /\ importer = createImporter
  /\ filePath = <<"src", "page.tsx">>
  /\ declIdx = 0
  /\ callIdx = 0
  /\ translationsAnalysis = <<>>
  /\ analyzedKeys = <<>>
  /\ folded = <<>>
  /\ entry \in {"detectKeys", "getScopeRange"}
  /\ pc = "bindings"
  /\ analysisIdx = 0
  /\ dynamicVars = {}
  /\ returned = <<>>

\* detectKeys: one iteration of the loop over translationsAnalysis
DetectKeys_Bind ==
  /\ entry = "detectKeys"
  /\ pc = "bindings"
  /\ declIdx = Len(code.declarators)
  /\ analysisIdx < Len(translationsAnalysis)
  /\ LET analysis == translationsAnalysis[analysisIdx + 1]
     IN  varNamespaceMap' =
           IF Truthy(analysis.namespace)
             THEN MapSet(varNamespaceMap, analysis.variableName, analysis.namespace.s)
             ELSE varNamespaceMap
  /\ analysisIdx' = analysisIdx + 1
  /\ UNCHANGED <<code, importer, filePath, declIdx, callIdx, translationsAnalysis,
                 analyzedKeys, folded, entry, pc, dynamicVars, returned>>

\* detectKeys: the loop is over, analyzeTranslationUsages is called with the map
DetectKeys_Usages ==
  /\ entry = "detectKeys"
  /\ pc = "bindings"
  /\ declIdx = Len(code.declarators)
  /\ analysisIdx = Len(translationsAnalysis)
  /\ pc' = "usages"
  /\ UNCHANGED <<code, varNamespaceMap, importer, filePath, declIdx, callIdx,
                 translationsAnalysis, analyzedKeys, folded, entry, analysisIdx,
                 dynamicVars, returned>>

\* detectKeys: return analyzedKeys.map(ak => ({ key, start, end, quoted }))
DetectKeys_Return ==
  /\ entry = "detectKeys"
  /\ pc = "usages"
  /\ callIdx = Len(code.calls)
  /\ returned' = [i \in 1..Len(analyzedKeys) |->
                    [key |-> analyzedKeys[i].key, start |-> analyzedKeys[i].start,
                     end |-> analyzedKeys[i].end, quoted |-> analyzedKeys[i].quoted]]
  /\ pc' = "done"
  /\ UNCHANGED <<code, varNamespaceMap, importer, filePath, declIdx, callIdx,
                 translationsAnalysis, analyzedKeys, folded, entry, analysisIdx,
                 dynamicVars>>

\* getScopeRange: one iteration of the loop over translationsAnalysis
GetScopeRange_Bind ==
  /\ entry = "getScopeRange"
  /\ pc = "bindings"
  /\ declIdx = Len(code.declarators)
  /\ analysisIdx < Len(translationsAnalysis)
  /\ LET analysis == translationsAnalysis[analysisIdx + 1]
     IN  /\ dynamicVars' =
              IF analysis.isDynamic /\ Truthy(analysis.dynamicPlaceholder)
                THEN MapSet(dynamicVars, analysis.variableName,
                            analysis.dynamicPlaceholder.s)
                ELSE dynamicVars
         /\ varNamespaceMap' =
              IF ~analysis.isDynamic /\ Truthy(analysis.namespace)
                THEN MapSet(varNamespaceMap, analysis.variableName, analysis.namespace.s)
                ELSE varNamespaceMap
  /\ analysisIdx' = analysisIdx + 1
  /\ UNCHANGED <<code, importer, filePath, declIdx, callIdx, translationsAnalysis,
                 analyzedKeys, folded, entry, pc, returned>>

\* combinedMap: new Map(varNamespaceMap), then every entry of dynamicVars set
RECURSIVE CombinedMap(_, _)
CombinedMap(map, dynamic) ==
  IF dynamic = {} THEN map
  ELSE LET e == CHOOSE e \in dynamic : TRUE
       IN  CombinedMap(MapSet(map, e.k, e.v), dynamic \ {e})

\* getScopeRange: the loop is over; when either map has an entry,
\* analyzeTranslationUsages is called with the combined map, which becomes
\* its varNamespaceMap
GetScopeRange_Usages ==
  /\ entry = "getScopeRange"
  /\ pc = "bindings"
  /\ declIdx = Len(code.declarators)
  /\ analysisIdx = Len(translationsAnalysis)
  /\ varNamespaceMap # {} \/ dynamicVars # {}
  /\ varNamespaceMap' = CombinedMap(varNamespaceMap, dynamicVars)
  /\ pc' = "usages"
  /\ UNCHANGED <<code, importer, filePath, declIdx, callIdx, translationsAnalysis,
                 analyzedKeys, folded, entry, analysisIdx, dynamicVars, returned>>

\* the ranges pushed for the usages that carry a namespace
RECURSIVE Ranges(_)
Ranges(usages) ==
  IF usages = <<>> THEN <<>>
  ELSE (IF Truthy(Head(usages).namespace)
          THEN <<[start |-> Head(usages).start, end |-> Head(usages).end,
                  namespace |-> Head(usages).namespace.s]>>
          ELSE <<>>)
         \o Ranges(Tail(usages))

\* getScopeRange: return ranges; the documents hold no `namespace: '...'`
\* text, so the regular-expression fallback adds no range
GetScopeRange_Return ==
  /\ entry = "getScopeRange"
  /\ \/ pc = "usages" /\ callIdx = Len(code.calls)
     \/ /\ pc = "bindings"
        /\ declIdx = Len(code.declarators)
        /\ analysisIdx = Len(translationsAnalysis)
        /\ varNamespaceMap = {}
        /\ dynamicVars = {}
  /\ returned' = Ranges(analyzedKeys)
  /\ pc' = "done"
  /\ UNCHANGED <<code, varNamespaceMap, importer, filePath, declIdx, callIdx,
                 translationsAnalysis, analyzedKeys, folded, entry, analysisIdx,
                 dynamicVars>>

\* analyzeTranslationUsages, called by the method with the map it built
Usages == pc = "usages" /\ AnalyzeTranslationUsages

FrameworkNext ==
  \/ AnalyzeUseTranslations
  \/ DetectKeys_Bind
  \/ DetectKeys_Usages
  \/ GetScopeRange_Bind
  \/ GetScopeRange_Usages
  \/ Usages
  \/ DetectKeys_Return
  \/ GetScopeRange_Return

FrameworkSpec == FrameworkInit /\ [][FrameworkNext]_vars

(***************************************************************************)
(* Reading the results                                                     *)
(***************************************************************************)
\* the scopes that enclose a scope, itself included
RECURSIVE Enclosing(_)
Enclosing(scope) ==
  IF scope = 0 THEN {} ELSE {scope} \cup Enclosing(code.parent[scope])

\* whether a scope itself declares a name (declarator, parameter or import)
Declares(scope, name) ==
  \/ \E i \in 1..Len(code.declarators) :
       code.declarators[i].scope = scope /\ code.declarators[i].id = Id(name)
  \/ \E i \in 1..Len(code.params) :
       code.params[i].scope = scope /\ code.params[i].name = name
  \/ scope = 1 /\ \E i \in 1..Len(code.imports) : code.imports[i].local = name

\* the declarators of `name` lexically visible from `scope`: those of the
\* innermost enclosing scope that declares the name
VisibleDeclarators(scope, name) ==
  {i \in 1..Len(code.declarators) :
     /\ code.declarators[i].id = Id(name)
     /\ code.declarators[i].scope \in Enclosing(scope)
     /\ \A s \in Enclosing(scope) :
          Declares(s, name) => s \in Enclosing(code.declarators[i].scope)}

\* a declarator whose initializer is an (awaited) call of useTranslations or
\* getTranslations, named directly or as the property of a member expression
IsAccessorDeclarator(d) ==
  LET call == IF d.init.type = "AwaitExpression" THEN d.init.argument ELSE d.init
  IN  /\ d.id.type = "Identifier"
      /\ call.type = "CallExpression"
      /\ \E fn \in {"useTranslations", "getTranslations"} :
           \/ call.callee = Id(fn)
           \/ call.callee.type = "MemberExpression" /\ call.callee.property = Id(fn)

AccessorCall(d) == IF d.init.type = "AwaitExpression" THEN d.init.argument ELSE d.init

\* the entries analyzeUseTranslations has pushed for declarator i
AnalysisOf(i) ==
  SelectSeq(translationsAnalysis,
            LAMBDA a : a.location.start = code.declarators[i].start)

\* the keys analyzeTranslationUsages has pushed for call i
KeysAt(i) == SelectSeq(analyzedKeys, LAMBDA k : k.start = code.calls[i].start)

\* the variable a call is made on: t of t(...) and of t.method(...)
CalleeVariable(call) ==
  IF call.node.callee.type = "Identifier" THEN {call.node.callee.name}
  ELSE IF call.node.callee.type = "MemberExpression"
            /\ call.node.callee.object.type = "Identifier"
    THEN {call.node.callee.object.name}
  ELSE {}

\* the namespaces scope-based resolution gives the callee variable of a call:
\* those analyzeUseTranslations resolved for its visible accessor declarator
ScopeResolved(call) ==
  {a.namespace.s :
     a \in {AnalysisOf(d)[1] :
              d \in {d \in UNION {VisibleDeclarators(call.scope, v) :
                                    v \in CalleeVariable(call)} :
                       /\ IsAccessorDeclarator(code.declarators[d])
                       /\ AnalysisOf(d) # <<>>
                       /\ ~AnalysisOf(d)[1].isDynamic}}}

\* namespace + delimiter + local key
Qualify(ns, local) == ns \o "." \o local

\* C1: a lookup on a variable whose binding's accessor call resolves to a
\* namespace N emits keys qualified with N whatever the fallback map holds;
\* the map's value is used only when the scope gives no namespace.
C1_ScopeTakesPrecedence ==
  \A i \in 1..callIdx :
    \A ns \in ScopeResolved(code.calls[i]) :
      \A j \in 1..Len(KeysAt(i)) : KeysAt(i)[j].namespace = StrV(ns)

\* C5: a lookup with a literal key on a variable whose namespace resolves to
\* the empty string, by its scope or by the fallback map, emits the bare key.
C5_EmptyNamespaceBareKey ==
  \A i \in 1..callIdx :
    LET call == code.calls[i]
        byScope == "" \in ScopeResolved(call)
        byMap == /\ ScopeResolved(call) = {}
                 /\ \E v \in CalleeVariable(call) : [k |-> v, v |-> ""] \in varNamespaceMap
    IN  (/\ byScope \/ byMap
         /\ call.node.callee.type = "Identifier"
         /\ Len(call.node.arguments) > 0
         /\ call.node.arguments[1].type = "StringLiteral")
        => /\ Len(KeysAt(i)) = 1
           /\ KeysAt(i)[1].key = call.node.arguments[1].value

\* C6: every emitted key is for a variable that resolved a namespace through
\* its scope binding or is a key of the fallback map; a call on any other
\* variable emits nothing.
C6_OnlyAccessorsEmit ==
  \A i \in 1..callIdx :
    LET call == code.calls[i]
    IN  /\ \A j \in 1..Len(KeysAt(i)) :
             /\ KeysAt(i)[j].variableName \in CalleeVariable(call)
             /\ \/ ScopeResolved(call) # {}
                \/ \E e \in varNamespaceMap : e.k = KeysAt(i)[j].variableName
        /\ (/\ ScopeResolved(call) = {}
            /\ \A v \in CalleeVariable(call) : \A e \in varNamespaceMap : e.k # v)
           => KeysAt(i) = <<>>

\* a call on a variable outside the map and without a namespace has been
\* visited, and so has a call that emitted a key
C6_Witness ==
  /\ \E i \in 1..callIdx :
       /\ CalleeVariable(code.calls[i]) = {"u"}
       /\ ScopeResolved(code.calls[i]) = {}
       /\ \A e \in varNamespaceMap : e.k # "u"
       /\ KeysAt(i) = <<>>
  /\ \E i \in 1..callIdx : KeysAt(i) # <<>> /\ ScopeResolved(code.calls[i]) = {}
  /\ \E i \in 1..callIdx : KeysAt(i) # <<>> /\ ScopeResolved(code.calls[i]) # {}

\* the label analyzeUseTranslations gives the file
FileLabel == IF filePath = <<>> THEN "unknown" ELSE filePath[Len(filePath)]

\* C8: an accessor call without a first argument yields a binding with no
\* namespace, isDynamic and the placeholder <no-namespace:{label}:L{line}>;
\* a call with a first argument yields no placeholder or a <dynamic:...> one.
C8_NoArgumentPlaceholder ==
  \A i \in 1..declIdx :
    LET d == code.declarators[i]
        noNs == StrV("<no-namespace:" \o FileLabel \o ":L" \o ToString(d.line) \o ">")
        dyn == StrV("<dynamic:" \o FileLabel \o ":L" \o ToString(d.line) \o ">")
    IN  IsAccessorDeclarator(d) =>
          /\ Len(AnalysisOf(i)) = 1
          /\ IF AccessorCall(d).arguments = <<>>
               THEN /\ AnalysisOf(i)[1].namespace = NullV
                    /\ AnalysisOf(i)[1].isDynamic
                    /\ AnalysisOf(i)[1].dynamicPlaceholder = noNs
               ELSE AnalysisOf(i)[1].dynamicPlaceholder \in {NullV, dyn}

\* no-argument accessor calls have been analysed with and without a file path
C8_Witness ==
  /\ \E i \in 1..declIdx :
       /\ IsAccessorDeclarator(code.declarators[i])
       /\ AccessorCall(code.declarators[i]).arguments = <<>>
       /\ AnalysisOf(i)[1].dynamicPlaceholder = StrV("<no-namespace:page.tsx:L1>")
  /\ \E i \in 1..declIdx :
       /\ IsAccessorDeclarator(code.declarators[i])
       /\ AccessorCall(code.declarators[i]).arguments # <<>>
       /\ ~AnalysisOf(i)[1].isDynamic

\* the string literals that initialise the declarators of `name` visible
\* from `scope`
VisibleLiteral(scope, name) ==
  {code.declarators[d].init.value :
     d \in {d \in VisibleDeclarators(scope, name) :
              code.declarators[d].init.type = "StringLiteral"}}

\* the key a lookup emits for a local key under the namespace it reports
KeyUnder(k, local) ==
  IF k.namespace.t = "string" /\ k.namespace.s # ""
    THEN k.namespace.s \o "." \o local
    ELSE local

\* C2: an identifier given as namespace argument or as key argument folds to
\* the value of the declaration of that name visible in the scope of the
\* call, whatever other scopes declare under the same name.
C2_ShadowingResolvesPerScope ==
  /\ \A i \in 1..declIdx :
       LET d == code.declarators[i]
       IN  (/\ IsAccessorDeclarator(d)
            /\ AccessorCall(d).arguments # <<>>
            /\ AccessorCall(d).arguments[1].type = "Identifier")
           => /\ Len(AnalysisOf(i)) = 1
              /\ \A v \in VisibleLiteral(d.scope, AccessorCall(d).arguments[1].name) :
                   /\ AnalysisOf(i)[1].namespace = StrV(v)
                   /\ ~AnalysisOf(i)[1].isDynamic
              /\ VisibleDeclarators(d.scope, AccessorCall(d).arguments[1].name) = {}
                   => AnalysisOf(i)[1].isDynamic
  /\ \A i \in 1..callIdx :
       LET call == code.calls[i]
       IN  (/\ \E v \in CalleeVariable(call) : \E e \in varNamespaceMap : e.k = v
            /\ call.node.arguments # <<>>
            /\ call.node.arguments[1].type = "Identifier")
           => /\ \A v \in VisibleLiteral(call.scope, call.node.arguments[1].name) :
                   /\ Len(KeysAt(i)) = 1
                   /\ KeysAt(i)[1].key = KeyUnder(KeysAt(i)[1], v)
              /\ (\A s \in Enclosing(call.scope) :
                    ~Declares(s, call.node.arguments[1].name))
                   => KeysAt(i) = <<>>

\* a file whose program scope, function B and the function inside B each
\* declare ns and key has been analysed to its end
C2_Witness ==
  /\ callIdx = Len(code.calls)
  /\ \A sc \in {1, 3, 4} : Declares(sc, "ns") /\ Declares(sc, "key")
  /\ \E i \in 1..callIdx : KeysAt(i) # <<>> /\ KeysAt(i)[1].key = "g.gk"
  /\ \E i \in 1..callIdx : KeysAt(i) # <<>> /\ KeysAt(i)[1].key = "l.lk"
  /\ \E i \in 1..callIdx : KeysAt(i) # <<>> /\ KeysAt(i)[1].key = "i.ik"

\* the text of a string element of an array literal
ElementText(el) == IF el.type = "StringLiteral" THEN el.value ELSE el.quasis[1]

\* an array literal all of whose elements are string literals
IsStringArray(node) ==
  /\ node.type = "ArrayExpression"
  /\ \A j \in 1..Len(node.elements) :
       \/ node.elements[j].type = "StringLiteral"
       \/ node.elements[j].type = "TemplateLiteral" /\ node.elements[j].expressions = <<>>

\* the `X.map(callback)` calls whose callback parameter a lookup passes as key
MapCallsOf(call) ==
  {code.params[p].fnParent :
     p \in {p \in 1..Len(code.params) :
              /\ call.node.arguments # <<>>
              /\ call.node.arguments[1] = Id(code.params[p].name)
              /\ code.params[p].scope \in Enclosing(call.scope)
              /\ code.params[p].fnParent.type = "CallExpression"
              /\ code.params[p].fnParent.callee.type = "MemberExpression"
              /\ code.params[p].fnParent.callee.property = Id("map")}}

\* an initializer without its `as const`
Bare(init) == IF init.type = "TSAsExpression" THEN init.expression ELSE init

\* the array literals the identifier X of `X.map(...)` names from `scope`
NamedArrays(mapCall, scope) ==
  IF mapCall.callee.object.type = "Identifier"
    THEN {Bare(code.declarators[d].init) :
            d \in {d \in VisibleDeclarators(scope, mapCall.callee.object.name) :
                     IsStringArray(Bare(code.declarators[d].init))}}
    ELSE {}

\* the array literals written as the object of `[...].map(...)` itself
DirectArrays(mapCall) ==
  IF IsStringArray(mapCall.callee.object) THEN {mapCall.callee.object} ELSE {}

\* the namespaces of the variable a lookup is made on: by scope, else by map
NamespacesOf(call) ==
  IF ScopeResolved(call) # {} THEN ScopeResolved(call)
  ELSE {e.v : e \in {e \in varNamespaceMap : e.k \in CalleeVariable(call)}}

\* the keys at call i are the elements of arr in order, each made by key(ns, element)
EmitsElements(i, arr, key(_, _)) ==
  /\ Len(KeysAt(i)) = Len(arr.elements)
  /\ \A j \in 1..Len(KeysAt(i)) :
       \E ns \in NamespacesOf(code.calls[i]) :
         KeysAt(i)[j].key = key(ns, ElementText(arr.elements[j]))

\* namespace + delimiter + key, or the bare key under the empty namespace
QualifyNonEmpty(ns, local) == IF ns = "" THEN local ELSE Qualify(ns, local)

RECURSIVE AliasChain(_, _, _)
AliasChain(scope, name, seen) ==
  IF name \in seen
    THEN [len |-> Cardinality(seen), cyclic |-> TRUE, end |-> Null]
  ELSE IF VisibleDeclarators(scope, name) = {}
    THEN [len |-> Cardinality(seen) + 1, cyclic |-> FALSE, end |-> Null]
  ELSE LET d == CHOOSE d \in VisibleDeclarators(scope, name) :
                  \A e \in VisibleDeclarators(scope, name) : d <= e
           init == Bare(code.declarators[d].init)
       IN  IF init.type = "Identifier"
             THEN AliasChain(scope, init.name, seen \cup {name})
             ELSE [len |-> Cardinality(seen) + 1, cyclic |-> FALSE, end |-> init]

\* a chain the fold cannot follow to its end: cyclic, or longer than the bound
Unfoldable(scope, name) ==
  \/ AliasChain(scope, name, {}).cyclic
  \/ AliasChain(scope, name, {}).len > RecursionLimit

\* C4: folding terminates on cyclic and self-referential alias declarations,
\* and an identifier that heads a cyclic chain of aliases or a chain of more
\* than 5 identifiers folds to dynamic: as accessor argument it gives no
\* namespace and isDynamic, as key argument it gives no key.
C4_LongChainsAreDynamic ==
  /\ \A i \in 1..declIdx :
       LET d == code.declarators[i]
       IN  (/\ IsAccessorDeclarator(d)
            /\ AccessorCall(d).arguments # <<>>
            /\ AccessorCall(d).arguments[1].type = "Identifier"
            /\ Unfoldable(d.scope, AccessorCall(d).arguments[1].name))
           => /\ Len(AnalysisOf(i)) = 1
              /\ AnalysisOf(i)[1].isDynamic
              /\ AnalysisOf(i)[1].namespace = NullV
  /\ \A i \in 1..callIdx :
       LET call == code.calls[i]
       IN  (/\ call.node.arguments # <<>>
            /\ call.node.arguments[1].type = "Identifier"
            /\ Unfoldable(call.scope, call.node.arguments[1].name))
           => KeysAt(i) = <<>>

\* a file has been analysed to its end in which t names a chain of 6
\* identifiers that ends in a string and is dynamic, u names the chain of 5
\* that resolves, and w names the cycle a = b, b = a and is dynamic
C4_Witness ==
  /\ declIdx = Len(code.declarators) /\ callIdx = Len(code.calls)
  /\ \E i \in 1..declIdx :
       /\ code.declarators[i].id = Id("t")
       /\ AliasChain(1, "k1", {}) =
            [len |-> RecursionLimit + 1, cyclic |-> FALSE, end |-> Str("v")]
       /\ AnalysisOf(i)[1].isDynamic
  /\ \E i \in 1..declIdx :
       /\ code.declarators[i].id = Id("u")
       /\ AliasChain(1, "k2", {}).len = RecursionLimit
       /\ AnalysisOf(i)[1].namespace = StrV("v")
  /\ \E i \in 1..declIdx :
       /\ code.declarators[i].id = Id("w")
       /\ AliasChain(1, "a", {}).cyclic
       /\ AnalysisOf(i)[1].isDynamic
  /\ \A i \in 1..callIdx :
       KeysAt(i) # <<>> <=> code.calls[i].node.callee = Id("u")

\* a key argument whose value comes from a variable binding: an identifier,
\* a callback parameter, or a literal with a substitution or operand that is
\* an identifier
ThroughVariable(arg) ==
  \/ arg.type \in {"Identifier", "MemberExpression"}
  \/ /\ arg.type = "TemplateLiteral"
     /\ \E j \in 1..Len(arg.expressions) : arg.expressions[j].type = "Identifier"

\* C7 as stated: quoted is true exactly when the key argument node is itself
\* a string or template literal, and no key folded through a variable binding
\* (identifier argument, map expansion, substitution that refers to a
\* variable) is marked quoted.
C7_QuotedOnlyWithoutVariables ==
  \A i \in 1..callIdx :
    \A j \in 1..Len(KeysAt(i)) :
      LET arg == code.calls[i].node.arguments[1]
      IN  /\ KeysAt(i)[j].quoted <=> arg.type \in {"StringLiteral", "TemplateLiteral"}
          /\ ThroughVariable(arg) => ~KeysAt(i)[j].quoted

\* C7: quoted is true exactly when the key argument node is itself a string
\* or template literal; so keys of an identifier argument or of a map
\* expansion are not quoted, and the key of a template literal is quoted
\* even when its substitutions refer to variables.
C7_QuotedIffLiteralNode ==
  \A i \in 1..callIdx :
    \A j \in 1..Len(KeysAt(i)) :
      LET arg == code.calls[i].node.arguments[1]
      IN  /\ KeysAt(i)[j].quoted <=> arg.type \in {"StringLiteral", "TemplateLiteral"}
          /\ arg.type \in {"Identifier", "MemberExpression"} => ~KeysAt(i)[j].quoted
          /\ (arg.type = "TemplateLiteral" /\ ThroughVariable(arg)) => KeysAt(i)[j].quoted

\* t('s'), t(`${prefix}.x`) and t('s' as string) have each emitted their key
C7_Witness ==
  /\ callIdx = 3
  /\ code.calls[2].node.arguments[1] = Tpl(<<"", ".x">>, <<Id("prefix")>>)
  /\ code.calls[3].node.arguments[1] = TSAs(Str("s"))
  /\ KeysAt(1) # <<>> /\ KeysAt(1)[1].key = "ns.s" /\ KeysAt(1)[1].quoted
  /\ KeysAt(2) # <<>> /\ KeysAt(2)[1].key = "ns.p.x" /\ KeysAt(2)[1].quoted
  /\ KeysAt(3) # <<>> /\ KeysAt(3)[1].key = "ns.s" /\ ~KeysAt(3)[1].quoted

\* the expression an accessor argument stands for: itself, or the
\* initializer of the declarator it names
Combination(scope, arg) ==
  IF arg.type = "Identifier"
    THEN {code.declarators[d].init : d \in VisibleDeclarators(scope, arg.name)}
    ELSE {arg}

\* the two identifiers an expression combines as a + b or `${a}${b}`
Operands(e) ==
  IF e.type = "BinaryExpression" /\ e.operator = "+"
       /\ e.left.type = "Identifier" /\ e.right.type = "Identifier"
    THEN {<<e.left.name, e.right.name>>}
  ELSE IF e.type = "TemplateLiteral" /\ e.quasis = <<"", "", "">>
            /\ e.expressions[1].type = "Identifier"
            /\ e.expressions[2].type = "Identifier"
    THEN {<<e.expressions[1].name, e.expressions[2].name>>}
  ELSE {}

\* C9: an accessor whose argument is a + b or `${a}${b}`, directly or through
\* an intermediate variable, with a and b variables initialised by string
\* constants, resolves the namespace to the concatenation of the two values
\* with isDynamic false.
C9_ConcatenationResolves ==
  \A i \in 1..declIdx :
    LET d == code.declarators[i]
    IN  (IsAccessorDeclarator(d) /\ AccessorCall(d).arguments # <<>>) =>
          \A e \in Combination(d.scope, AccessorCall(d).arguments[1]) :
            \A ab \in Operands(e) :
              \A x \in VisibleLiteral(d.scope, ab[1]) :
                \A y \in VisibleLiteral(d.scope, ab[2]) :
                  /\ Len(AnalysisOf(i)) = 1
                  /\ AnalysisOf(i)[1].namespace = StrV(x \o y)
                  /\ ~AnalysisOf(i)[1].isDynamic

\* with a = 'p' and b = 'r.s', the four accessors (a + b, `${a}${b}`, and
\* each through an intermediate variable) have resolved to 'pr.s'
C9_Witness ==
  /\ declIdx = Len(code.declarators)
  /\ VisibleLiteral(1, "a") = {"p"} /\ VisibleLiteral(1, "b") = {"r.s"}
  /\ \A n \in {"t1", "t2", "t3", "t4"} :
       \E i \in 1..declIdx :
         /\ code.declarators[i].id = Id(n)
         /\ Operands(CHOOSE e \in Combination(1, AccessorCall(code.declarators[i]).arguments[1]) : TRUE)
              = {<<"a", "b">>}
         /\ AnalysisOf(i)[1].namespace = StrV("pr.s")

\* the named imports that bind `name` in a file without a local declaration
\* of it
NamedImports(scope, name) ==
  {code.imports[m] :
     m \in {m \in 1..Len(code.imports) :
              /\ code.imports[m].local = name
              /\ code.imports[m].specifier = "ImportSpecifier"
              /\ \A sc \in Enclosing(scope) : sc # 1 => ~Declares(sc, name)
              /\ VisibleDeclarators(scope, name) = {}}}

\* an `export const name = ...` statement
IsExportOf(st, name) ==
  /\ st.type = "ExportNamedDeclaration"
  /\ st.declaration.type = "VariableDeclaration"
  /\ st.declaration.declarations[1].id = Id(name)

\* the initializers of the exported variable declarations named by the
\* imported name in the module text the resolver returns; none without a
\* resolver, without a text, or with a text that does not parse
ExportedInits(imp) ==
  {st.declaration.declarations[1].init :
     st \in UNION {{f.text.body[n] :
                      n \in {n \in 1..Len(f.text.body) :
                               IsExportOf(f.text.body[n], imp.imported)}} :
                    f \in {f \in importer.files :
                             /\ importer.present
                             /\ f.path = imp.source
                             /\ f.text.parses}}}

\* C10: an identifier bound by a named import folds to the fold of the
\* initializer of the exporting module's exported declaration named by the
\* imported name (not the local alias): a string gives the lookup its key, a
\* string array gives a map over it its keys. Without a resolver, without a
\* text, with a text that does not parse or without such an export the
\* identifier is dynamic and no key is emitted.
C10_NamedImportFoldsExport ==
  \A i \in 1..callIdx :
    LET call == code.calls[i]
    IN  (/\ NamespacesOf(call) # {}
         /\ call.node.arguments # <<>>
         /\ call.node.arguments[1].type = "Identifier")
        => /\ \A imp \in NamedImports(call.scope, call.node.arguments[1].name) :
                /\ ExportedInits(imp) = {} => KeysAt(i) = <<>>
                /\ \A init \in ExportedInits(imp) :
                     IsStringArray(Arr(<<init>>)) =>
                       EmitsElements(i, Arr(<<init>>), QualifyNonEmpty)
           /\ \A m \in MapCallsOf(call) :
                m.callee.object.type = "Identifier" =>
                  \A imp \in NamedImports(call.scope, m.callee.object.name) :
                    /\ ExportedInits(imp) = {} => KeysAt(i) = <<>>
                    /\ \A init \in ExportedInits(imp) :
                         IsStringArray(init) => EmitsElements(i, init, QualifyNonEmpty)

\* `import { KEY as LOCAL }` from a module that exports both KEY and LOCAL
\* has given t(LOCAL) the value of KEY, and the import from a module the
\* resolver does not know has given t(GONE) no key
C10_Witness ==
  /\ callIdx = Len(code.calls)
  /\ \E imp \in NamedImports(1, "LOCAL") :
       /\ imp.imported = "KEY"
       /\ ExportedInits(imp) = {Str("x")}
       /\ ExportedInits([imp EXCEPT !.imported = "LOCAL"]) = {Str("wrong")}
  /\ KeysAt(1) # <<>> /\ KeysAt(1)[1].key = "ns.x"
  /\ \E imp \in NamedImports(1, "GONE") : ExportedInits(imp) = {}
  /\ code.calls[4].node.arguments = <<Id("GONE")>> /\ KeysAt(4) = <<>>

\* an expression without the type-assertion wrappers around it
RECURSIVE Stripped(_)
Stripped(node) == IF node.type \in Wrappers THEN Stripped(node.expression) ELSE node

\* the names declared with the initializer `init`, written without wrappers
PlainNames(init) ==
  {code.declarators[d].id.name :
     d \in {d \in 1..Len(code.declarators) : code.declarators[d].init = init}}

\* C11: folding an expression under any number of type-assertion, non-null
\* or satisfies wrappers returns what folding the expression itself returns
\* at the same depth, and folding a variable whose initializer is under such
\* wrappers returns what folding a variable with the bare initializer returns.
C11_WrappersAreTransparent ==
  \A i \in 1..Len(folded) :
    LET f == folded[i]
    IN  /\ f.result = foldConstant(f.inner, f.scope, importer, f.depth)
        /\ f.node.type = "Identifier" =>
             \A d \in VisibleDeclarators(f.scope, f.node.name) :
               \A plain \in PlainNames(Stripped(code.declarators[d].init)) :
                 f.result = foldConstant(Id(plain), f.scope, importer, f.depth)

\* `(s satisfies T) as T`, folded at the last depth at which s still
\* resolves, has resolved
C11_Witness ==
  /\ folded # <<>>
  /\ folded[1].node = Wrap(<<"TSAsExpression", "TSSatisfiesExpression">>, Id("s"))
  /\ folded[1].depth = RecursionLimit - 1
  /\ folded[1].result = Resolved(StrV("v"))

\* the member a callee accesses: name of t.name, 'name' of t['name']
MemberName(callee) ==
  IF callee.property.type = "Identifier" THEN {callee.property.name}
  ELSE IF callee.property.type = "StringLiteral" THEN {callee.property.value}
  ELSE {}

\* C12: a call whose callee is a member access on an identifier, dotted or
\* computed, emits no key unless the accessed member is rich, markup or raw.
C12_OnlyRichMarkupRaw ==
  \A i \in 1..callIdx :
    LET callee == code.calls[i].node.callee
    IN  (/\ callee.type = "MemberExpression"
         /\ callee.object.type = "Identifier"
         /\ MemberName(callee) \cap {"rich", "markup", "raw"} = {})
        => KeysAt(i) = <<>>

\* the nodes the functions are children of whose parameter `name` is visible
\* from `scope`
ParameterParents(scope, name) ==
  {code.params[p].fnParent :
     p \in {p \in 1..Len(code.params) :
              /\ code.params[p].name = name
              /\ code.params[p].scope \in Enclosing(scope)
              /\ VisibleDeclarators(scope, name) = {}}}

\* a call X.map(f) with X an identifier and the function f its only argument
IsMapOfFunction(node) ==
  /\ node.type = "CallExpression"
  /\ node.callee.type = "MemberExpression"
  /\ node.callee.property = Id("map")
  /\ node.callee.object.type = "Identifier"
  /\ node.arguments = <<Arrow>>

\* C13: a lookup t(p) on a bare identifier p that is a parameter or has no
\* binding (so that folding p is dynamic) emits keys only when p is a
\* parameter of a function that is the sole argument of a call X.map(...) on
\* an identifier X.
C13_ExpansionOnlyForSoleMapArgument ==
  \A i \in 1..callIdx :
    LET call == code.calls[i]
    IN  (/\ call.node.arguments # <<>>
         /\ call.node.arguments[1].type = "Identifier"
         /\ \/ ParameterParents(call.scope, call.node.arguments[1].name) # {}
            \/ \A sc \in Enclosing(call.scope) :
                 ~Declares(sc, call.node.arguments[1].name)
         /\ KeysAt(i) # <<>>)
        => \E parent \in ParameterParents(call.scope, call.node.arguments[1].name) :
             IsMapOfFunction(parent)

\* what an element of an array literal folded at `depth` comes to: a string,
\* a simple object (an object literal; its properties that do not fold to a
\* string are dropped), or dynamic
ElementShape(el, scope, depth) ==
  IF IsString(foldConstant(el, scope, importer, depth + 1)) THEN "string"
  ELSE IF el.type = "ObjectExpression" THEN "object"
  ELSE "dynamic"

\* the elements of an array literal, its holes left out
ElementsOf(node) == {node.elements[j] : j \in 1..Len(node.elements)} \ {Null}

\* C14: folding an array literal gives dynamic when an element folds dynamic
\* or when two elements differ in shape (string versus object); a result
\* that is not dynamic has elements that all folded, to one shape.
C14_ArrayAllOrNothing ==
  \A i \in 1..Len(folded) :
    LET f == folded[i]
        shapes == {ElementShape(el, f.scope, f.depth) : el \in ElementsOf(f.node)}
    IN  (f.node # Null /\ f.node.type = "ArrayExpression") =>
          /\ "dynamic" \in shapes => f.result = Dynamic
          /\ Cardinality(shapes) > 1 => f.result = Dynamic
          /\ ~f.result.isDynamic =>
               /\ shapes \in {{"string"}, {"object"}}
               /\ f.result.value.t = (IF shapes = {"string"} THEN "string[]" ELSE "object[]")
               /\ Len(f.result.value.items) = Cardinality({j \in 1..Len(f.node.elements) :
                                                             f.node.elements[j] # Null})

\* ['a', { label: 'x' }, 'a'] has been folded, to dynamic
C14_Witness ==
  /\ folded # <<>>
  /\ folded[1].node = Arr(<<Str("a"), Obj(<<Prop(Id("label"), Str("x"))>>), Str("a")>>)
  /\ folded[1].depth = 0
  /\ folded[1].scope = 1
  /\ folded[1].result = Dynamic

\* C15: for an accessor call whose first argument is a template literal with
\* substitutions, resolveNamespaceFromCall resolves a namespace if and only
\* if foldConstant of that argument gives a string, and then that string.
C15_ResolverAgreesWithFolder ==
  \A i \in 1..declIdx :
    LET d == code.declarators[i]
    IN  (/\ IsAccessorDeclarator(d)
         /\ AccessorCall(d).arguments # <<>>
         /\ AccessorCall(d).arguments[1].type = "TemplateLiteral"
         /\ AccessorCall(d).arguments[1].expressions # <<>>)
        => LET res == foldConstant(AccessorCall(d).arguments[1], d.scope, importer, 0)
           IN  /\ Len(AnalysisOf(i)) = 1
               /\ ~AnalysisOf(i)[1].isDynamic <=> IsString(res)
               /\ IsString(res) => AnalysisOf(i)[1].namespace = res.value

\* the module paths the file under analysis imports from
ImportedPaths == {code.imports[m].source : m \in 1..Len(code.imports)}

\* C16: a fold hands the importer only module paths the file under analysis
\* imports, never a path that only an imported module imports; an imported
\* identifier whose export is initialised by an identifier folds dynamic,
\* whatever the importing file or the imported module declares under that
\* name.
C16_ImportsAreOneLevelDeep ==
  \A i \in 1..Len(folded) :
    LET f == folded[i]
    IN  /\ f.calls \subseteq ImportedPaths
        /\ (f.node # Null /\ f.node.type = "Identifier") =>
             \A imp \in NamedImports(f.scope, f.node.name) :
               (\E init \in ExportedInits(imp) : init.type = "Identifier")
                 => f.result = Dynamic

\* DEEP, exported as `DEEP = FAR` by a module that imports FAR from './far',
\* has been folded in a file that declares FAR itself: the resolver was asked
\* for './constants' only and the result is dynamic
C16_Witness ==
  /\ folded # <<>>
  /\ folded[1].node = Id("DEEP")
  /\ folded[1].scope = 1
  /\ folded[1].depth = 0
  /\ VisibleLiteral(1, "FAR") = {"here"}
  /\ \E f \in importer.files : f.path = "./far"
  /\ folded[1].calls = {"./constants"}
  /\ folded[1].result = Dynamic

\* the non-empty string an object literal gives its property `prop`
OwnString(obj, prop) ==
  {obj.properties[j].value.value :
     j \in {j \in 1..Len(obj.properties) :
              /\ obj.properties[j].type = "ObjectProperty"
              /\ obj.properties[j].key = Id(prop)
              /\ obj.properties[j].value.type = "StringLiteral"
              /\ obj.properties[j].value.value # ""}}
    \cup {obj.properties[j].value.quasis[1] :
            j \in {j \in 1..Len(obj.properties) :
                     /\ obj.properties[j].type = "ObjectProperty"
                     /\ obj.properties[j].key = Id(prop)
                     /\ obj.properties[j].value.type = "TemplateLiteral"
                     /\ obj.properties[j].value.expressions = <<>>
                     /\ obj.properties[j].value.quasis[1] # ""}}

\* one key per object that has a non-empty string `prop`, in array order
RECURSIVE KeysOfObjects(_, _, _)
KeysOfObjects(elements, prop, ns) ==
  IF elements = <<>> THEN <<>>
  ELSE (IF OwnString(Head(elements), prop) = {} THEN <<>>
        ELSE <<QualifyNonEmpty(ns, CHOOSE v \in OwnString(Head(elements), prop) : TRUE)>>)
         \o KeysOfObjects(Tail(elements), prop, ns)

\* an array literal all of whose elements are object literals
IsObjectArray(node) ==
  /\ node.type = "ArrayExpression"
  /\ node.elements # <<>>
  /\ \A j \in 1..Len(node.elements) : node.elements[j].type = "ObjectExpression"

\* C17: a lookup t(param.prop), with param the parameter of the callback of
\* X.map(...) and X an array of simple objects, emits one key per object that
\* has a truthy prop, the namespace-qualified value of prop, in array order;
\* objects without prop, or with an empty or unresolvable prop, give no key.
C17_OneKeyPerObjectWithProp ==
  \A i \in 1..callIdx :
    LET call == code.calls[i]
    IN  (/\ call.node.arguments # <<>>
         /\ call.node.arguments[1].type = "MemberExpression"
         /\ call.node.arguments[1].object.type = "Identifier"
         /\ call.node.arguments[1].property.type = "Identifier")
        => \A parent \in ParameterParents(call.scope, call.node.arguments[1].object.name) :
             IsMapOfFunction(parent) =>
               \A d \in VisibleDeclarators(call.scope, parent.callee.object.name) :
                 IsObjectArray(code.declarators[d].init) =>
                   \A ns \in NamespacesOf(call) :
                     [j \in 1..Len(KeysAt(i)) |-> KeysAt(i)[j].key]
                       = KeysOfObjects(code.declarators[d].init.elements,
                                       call.node.arguments[1].property.name, ns)

\* string | string[] | Record<string, string>[]
IsResolvedShape(value) ==
  \/ value.t = "string" /\ DOMAIN value = {"t", "s"} /\ value.s \in STRING
  \/ /\ value.t = "string[]"
     /\ DOMAIN value = {"t", "items"}
     /\ \A j \in 1..Len(value.items) : value.items[j] \in STRING
  \/ /\ value.t = "object[]"
     /\ DOMAIN value = {"t", "items"}
     /\ \A j \in 1..Len(value.items) :
          /\ \A e \in value.items[j] : e.k \in STRING /\ e.v \in STRING
          /\ \A e1, e2 \in value.items[j] : e1.k = e2.k => e1 = e2

\* C18: every value foldConstant returns, for any node, scope, importer and
\* depth, has isDynamic and value only: when isDynamic is false the value is a
\* string, a sequence of strings or a sequence of records from strings to
\* strings; when isDynamic is true the value is null.
C18_ResolvedValueShape ==
  \A i \in 1..Len(folded) :
    LET res == folded[i].result
    IN  /\ DOMAIN res = {"value", "isDynamic"}
        /\ res.isDynamic \in BOOLEAN
        /\ ~res.isDynamic => res.value # NullV /\ IsResolvedShape(res.value)
        /\ res.isDynamic => res.value = NullV

C18_Witness ==
  /\ folded # <<>>
  /\ folded[1].node.type = "ArrayExpression"
  /\ ~folded[1].result.isDynamic
  /\ folded[1].result.value.t = "object[]"
  /\ \E j \in 1..Len(folded[1].result.value.items) :
       Cardinality(folded[1].result.value.items[j]) = 2

\* the delimiter the framework declares for its keys
namespaceDelimiter == "."

\* the number of results pushed before the visitor reaches call i
RECURSIVE ResultsBefore(_)
ResultsBefore(i) ==
  IF i = 1 THEN 0
  ELSE ResultsBefore(i - 1) + Len(CallExpressionVisitor(code.calls[i - 1]))

\* the results pushed for call site i, in the order they were pushed
ResultsOf(i) ==
  SubSeq(analyzedKeys, ResultsBefore(i) + 1,
         ResultsBefore(i) + Len(CallExpressionVisitor(code.calls[i])))

BindingsOf(name) ==
  {i \in 1..Len(translationsAnalysis) : translationsAnalysis[i].variableName = name}

\* the last binding of a name in source order
LastBinding(name) ==
  translationsAnalysis[CHOOSE i \in BindingsOf(name) : \A h \in BindingsOf(name) : h <= i]

\* what a binding contributes to the map: its namespace, or its placeholder
\* when it is dynamic
Contribution(analysis) ==
  IF analysis.isDynamic THEN analysis.dynamicPlaceholder ELSE analysis.namespace

\* C20: in the map detectKeys and getScopeRange hand to
\* analyzeTranslationUsages, the entry of a variable name is the one
\* contributed by the last binding of that name in source order, whether the
\* bindings are resolved or dynamic.
C20_LastBindingWins ==
  pc \in {"usages", "done"} =>
    \A e \in varNamespaceMap :
      BindingsOf(e.k) # {} => StrV(e.v) = Contribution(LastBinding(e.k))

\* the values of an initializer made of one identifier, read where the
\* initializer stands: a, a as const, `${a}`, a + '<literal>'
ValueAtDeclaration(d) ==
  LET init == Bare(code.declarators[d].init)
      scope == code.declarators[d].scope
  IN  IF init.type = "Identifier" THEN VisibleLiteral(scope, init.name)
      ELSE IF init.type = "TemplateLiteral" /\ Len(init.expressions) = 1
                /\ init.expressions[1].type = "Identifier"
        THEN {init.quasis[1] \o v \o init.quasis[2] :
                v \in VisibleLiteral(scope, init.expressions[1].name)}
      ELSE IF init.type = "BinaryExpression" /\ init.operator = "+"
                /\ init.left.type = "Identifier" /\ init.right.type = "StringLiteral"
        THEN {v \o init.right.value : v \in VisibleLiteral(scope, init.left.name)}
      ELSE {}

\* C21: an identifier k that is folded through its declarator takes the
\* identifiers of k's initializer from the bindings visible where k is
\* declared, not where k is used: as key and as namespace argument, k gives
\* the value its initializer has at k's declaration.
C21_AliasFoldsAtDeclaration ==
  /\ \A i \in 1..callIdx :
       LET call == code.calls[i]
       IN  (/\ NamespacesOf(call) # {}
            /\ call.node.arguments # <<>>
            /\ call.node.arguments[1].type = "Identifier")
           => \A d \in VisibleDeclarators(call.scope, call.node.arguments[1].name) :
                \A v \in ValueAtDeclaration(d) :
                  /\ Len(KeysAt(i)) = 1
                  /\ KeysAt(i)[1].key = KeyUnder(KeysAt(i)[1], v)
  /\ \A i \in 1..declIdx :
       LET decl == code.declarators[i]
       IN  (/\ IsAccessorDeclarator(decl)
            /\ AccessorCall(decl).arguments # <<>>
            /\ AccessorCall(decl).arguments[1].type = "Identifier")
           => \A d \in VisibleDeclarators(decl.scope, AccessorCall(decl).arguments[1].name) :
                \A v \in ValueAtDeclaration(d) :
                  /\ Len(AnalysisOf(i)) = 1
                  /\ AnalysisOf(i)[1].namespace = StrV(v)

\* whether an expression is built from string literals by + and template
\* interpolation alone
RECURSIVE IsLiteralOnly(_)
IsLiteralOnly(node) ==
  IF node.type = "StringLiteral" THEN TRUE
  ELSE IF node.type = "BinaryExpression"
    THEN node.operator = "+" /\ IsLiteralOnly(node.left) /\ IsLiteralOnly(node.right)
  ELSE IF node.type = "TemplateLiteral"
    THEN \A j \in 1..Len(node.expressions) : IsLiteralOnly(node.expressions[j])
  ELSE FALSE

\* the text of a template literal from quasi j on, given the text of each
\* of its interpolated expressions
RECURSIVE Interleave(_, _, _)
Interleave(quasis, texts, j) ==
  IF j > Len(quasis) THEN ""
  ELSE quasis[j] \o (IF j <= Len(texts) THEN texts[j] ELSE "")
         \o Interleave(quasis, texts, j + 1)

\* the concatenation of the literals of a literal-only expression
RECURSIVE LiteralText(_)
LiteralText(node) ==
  IF node.type = "StringLiteral" THEN node.value
  ELSE IF node.type = "BinaryExpression"
    THEN LiteralText(node.left) \o LiteralText(node.right)
  ELSE Interleave(node.quasis,
                  [j \in 1..Len(node.expressions) |-> LiteralText(node.expressions[j])], 1)

\* C22: an expression built only from string literals, + and template
\* interpolation, without identifiers, folds to the concatenation of its
\* literals with isDynamic false, however deeply it is nested.
C22_LiteralsFoldAtEveryDepth ==
  \A i \in 1..Len(folded) :
    LET f == folded[i]
    IN  (f.depth = 0 /\ f.node # Null /\ IsLiteralOnly(f.node))
          => f.result = Resolved(StrV(LiteralText(f.node)))

\* the assignment expressions of the file
Assignments == IF "assignments" \in DOMAIN code THEN code.assignments ELSE <<>>

\* a declarator whose variable is assigned, after its declaration, a value
\* other than its initializer
Reassigned(d) ==
  \E j \in 1..Len(Assignments) :
    /\ Assignments[j].left.type = "Identifier"
    /\ d \in VisibleDeclarators(Assignments[j].scope, Assignments[j].left.name)
    /\ Assignments[j].right # code.declarators[d].init

\* C23: an identifier declared with let or var and assigned another value
\* after its declaration folds dynamic: as key argument it gives no key, as
\* namespace argument it gives no namespace.
C23_ReassignedIsDynamic ==
  /\ \A i \in 1..callIdx :
       LET call == code.calls[i]
       IN  (call.node.arguments # <<>> /\ call.node.arguments[1].type = "Identifier")
           => \A d \in VisibleDeclarators(call.scope, call.node.arguments[1].name) :
                Reassigned(d) => KeysAt(i) = <<>>
  /\ \A i \in 1..declIdx :
       LET decl == code.declarators[i]
       IN  (/\ IsAccessorDeclarator(decl)
            /\ AccessorCall(decl).arguments # <<>>
            /\ AccessorCall(decl).arguments[1].type = "Identifier")
           => \A d \in VisibleDeclarators(decl.scope, AccessorCall(decl).arguments[1].name) :
                Reassigned(d) =>
                  /\ Len(AnalysisOf(i)) = 1
                  /\ AnalysisOf(i)[1].isDynamic
                  /\ AnalysisOf(i)[1].namespace = NullV

====
